---- MODULE Spec2Model ----
(***************************************************************************)
(* Model of the data and control core of js-3d-engine:                     *)
(*   - EntityManager   (src/src/ecs/entity-manager.js)                     *)
(*   - TransformComponent (src/src/components/transform-component.js)     *)
(*   - CommandManager  (src/test/setup.js, "src/editor/command-manager.js")*)
(* The store is one record `em`; every method of EntityManager is an       *)
(* operator from a store (and arguments) to a result record                *)
(*   [em |-> store after, ret |-> return value, events |-> emitted events, *)
(*    hung |-> the call never returns].                                    *)
(***************************************************************************)
EXTENDS Integers, Sequences, FiniteSets, TLC

\* ---------------------------------------------------------------- bounds
\* entity IDs that createEntity may hand out in the model
MaxId == 2
\* number of entity records in a scene document given to deserialize
MaxDocLen == 2

\* ---------------------------------------------------------------- values
\* JS null (TransformComponent.parent of a root)
NULL == -1
\* JS undefined / key not present in a data object
UNDEF == -2

Ids == 1..MaxId
\* IDs a caller may pass: the allocatable ones and one that is never live
ArgIds == 1..(MaxId + 1)
\* values a caller may pass as data.parent / newParentId
ParentArgs == {NULL} \cup ArgIds

RegisteredTypes == {"transform", "tag"}
\* "ghost" is a type name that was never registered
Types == RegisteredTypes \cup {"ghost"}

\* typeof x === 'number' && isFinite(x): numbers are the non-negative integers
\* of the model, the negative ones encode null / undefined
IsNumber(x) == x >= 0

\* ------------------------------------------------- JS Set / Map as values
\* A JS Set iterates in insertion order: a duplicate-free sequence.
Range(s) == {s[i] : i \in DOMAIN s}
SetAdd(s, x) == IF x \in Range(s) THEN s ELSE Append(s, x)
SetDelete(s, x) == SelectSeq(s, LAMBDA y : y # x)
\* A JS Map: a function on its keys.
MapSet(f, k, v) == [x \in (DOMAIN f) \cup {k} |-> IF x = k THEN v ELSE f[x]]
MapDelete(f, k) == [x \in (DOMAIN f) \ {k} |-> f[x]]
\* F applied to the result v of a statement that has run once: v is computed
\* one time, whatever number of times the statements after it read it
Then(v, F(_)) == CHOOSE out \in {F(x) : x \in {v}} : TRUE
EmptyMap == [x \in {} |-> {}]

\* ------------------------------------------------------------ the store
EmptyStore ==
    [nextEntityId |-> 1,
     entities |-> <<>>,
     entityComponents |-> EmptyMap,
     componentEntityMap |-> EmptyMap]

Event(name, id) == [name |-> name, id |-> id]
Res(s, ret, ev) == [em |-> s, ret |-> ret, events |-> ev, hung |-> FALSE]
Hang(s) == [em |-> s, ret |-> FALSE, events |-> <<>>, hung |-> TRUE]

HasEntity(s, entityId) == IsNumber(entityId) /\ entityId \in Range(s.entities)

HasComponent(s, entityId, componentType) ==
    /\ HasEntity(s, entityId)
    /\ entityId \in DOMAIN s.entityComponents
    /\ componentType \in DOMAIN s.entityComponents[entityId]

\* only used where HasComponent holds (the code's null result is that test)
GetComponent(s, entityId, componentType) ==
    s.entityComponents[entityId][componentType]

GetEntitiesWithComponent(s, componentType) ==
    IF componentType \in DOMAIN s.componentEntityMap
    THEN s.componentEntityMap[componentType]
    ELSE <<>>

GetChildren(s, entityId) ==
    IF HasComponent(s, entityId, "transform")
    THEN Range(GetComponent(s, entityId, "transform").children)
    ELSE {}

\* typeof type === 'string' && type.trim() !== '': the blank string is the
\* type name a query rejects
IsTypeName(type) == type # ""

\* the scan for the smallest index set: `none` when a listed type has no
\* index set or an empty one, else the first of the smallest sets
RECURSIVE SmallestSet(_, _, _, _)
SmallestSet(s, componentTypes, i, smallest) ==
    IF i > Len(componentTypes) THEN smallest
    ELSE LET set == GetEntitiesWithComponent(s, componentTypes[i])
         IN  IF Len(set) = 0 THEN [none |-> TRUE, set |-> <<>>]
             ELSE IF smallest.none \/ Len(set) < Len(smallest.set)
             THEN SmallestSet(s, componentTypes, i + 1, [none |-> FALSE, set |-> set])
             ELSE SmallestSet(s, componentTypes, i + 1, smallest)

\* (variant: the members of the smallest set are not filtered)
HasEveryComponentUnchecked(s, id, componentTypes) == TRUE

\* componentTypes.every(type => this.hasComponent(id, type))
HasEveryComponent(s, id, componentTypes) ==
    \A i \in DOMAIN componentTypes : HasComponent(s, id, componentTypes[i])

GetEntitiesWithComponents(s, componentTypes) ==
    IF Len(componentTypes) = 0 THEN s.entities
    ELSE IF \E i \in DOMAIN componentTypes : ~IsTypeName(componentTypes[i]) THEN <<>>
    ELSE LET smallest == SmallestSet(s, componentTypes, 1, [none |-> TRUE, set |-> <<>>])
         IN  IF smallest.none THEN <<>>
             ELSE SelectSeq(smallest.set,
                            LAMBDA id : HasEveryComponent(s, id, componentTypes))

\* write a component object's fields (the object stays the entity's component)
PutComponent(s, entityId, componentType, c) ==
    [s EXCEPT !.entityComponents =
        MapSet(@, entityId, MapSet(@[entityId], componentType, c))]

_addComponentToEntityMap(s, entityId, componentType) ==
    [s EXCEPT !.componentEntityMap =
        MapSet(@, componentType,
               SetAdd(IF componentType \in DOMAIN @ THEN @[componentType] ELSE <<>>,
                      entityId))]

\* (variant: the index entry is left behind)
_removeComponentFromEntityMapStale(s, entityId, componentType) == s

_removeComponentFromEntityMap(s, entityId, componentType) ==
    IF componentType \in DOMAIN s.componentEntityMap
    THEN [s EXCEPT !.componentEntityMap[componentType] = SetDelete(@, entityId)]
    ELSE s

\* TransformComponent._addChild / _removeChild / _setParent on the component
\* of entity `owner` (no effect when it has none: the code's `?.`)
_addChild(s, owner, childId) ==
    IF HasComponent(s, owner, "transform")
    THEN LET t == GetComponent(s, owner, "transform")
         IN PutComponent(s, owner, "transform",
                         [t EXCEPT !.children = SetAdd(@, childId)])
    ELSE s

_removeChild(s, owner, childId) ==
    IF HasComponent(s, owner, "transform")
    THEN LET t == GetComponent(s, owner, "transform")
         IN PutComponent(s, owner, "transform",
                         [t EXCEPT !.children = SetDelete(@, childId)])
    ELSE s

_setParent(s, entityId, parentId) ==
    LET t == GetComponent(s, entityId, "transform")
    IN PutComponent(s, entityId, "transform", [t EXCEPT !.parent = parentId])

\* new ComponentConstructor(componentData)
TransformComponent(data) ==
    [parent |-> IF data.parent # UNDEF THEN data.parent ELSE NULL,
     children |-> <<>>]
TagComponent(data) == [tags |-> <<>>]
NewComponent(componentType, data) ==
    IF componentType = "transform" THEN TransformComponent(data) ELSE TagComponent(data)

\* ----------------------------------------------------------- createEntity
\* the id createEntity allocates: the first id from nextEntityId on that is not
\* live
(* variant: the counter is used without looking for a live entity *)
CreateEntityIdNoSkip(s) == s.nextEntityId
(* variant: the lowest id that is not live *)
CreateEntityIdLowestFree(s) ==
    LET free == {i \in 1..(Len(s.entities) + 1) : i \notin Range(s.entities)}
    IN CHOOSE i \in free : \A j \in free : i <= j
CreateEntityId(s) ==
    LET free == {i \in s.nextEntityId..(s.nextEntityId + Len(s.entities)) :
                    i \notin Range(s.entities)}
    IN CHOOSE i \in free : \A j \in free : i <= j

CreateEntity(s) ==
    LET id == CreateEntityId(s)
    IN Res([s EXCEPT !.nextEntityId = id + 1,
                     !.entities = SetAdd(@, id),
                     !.entityComponents = MapSet(@, id, EmptyMap)],
           id, <<>>)

\* -------------------------------------------------------------- setParent
\* The ancestor walk of the cycle check.  `visited` is not program state: the
\* walk's only state is ancestorId, so meeting an ancestor twice means that the
\* loop of the code never ends.
\* (variant: the cycle check is skipped)
AncestorWalkUnchecked(s, entityId, ancestorId, visited) == "acyclic"

RECURSIVE AncestorWalk(_, _, _, _)
AncestorWalk(s, entityId, ancestorId, visited) ==
    IF ancestorId = NULL THEN "acyclic"
    ELSE IF ancestorId = entityId THEN "circular"
    ELSE IF ~HasComponent(s, ancestorId, "transform") THEN "missing"
    ELSE IF ancestorId \in visited THEN "diverges"
    ELSE AncestorWalk(s, entityId,
                      GetComponent(s, ancestorId, "transform").parent,
                      visited \cup {ancestorId})

SetParentApply(s, entityId, newParentId) ==
    LET oldParentId == GetComponent(s, entityId, "transform").parent
        s1 == IF oldParentId # NULL /\ oldParentId # newParentId
              THEN _removeChild(s, oldParentId, entityId) ELSE s
        s2 == IF newParentId # NULL THEN _addChild(s1, newParentId, entityId) ELSE s1
        s3 == _setParent(s2, entityId, newParentId)
    IN Res(s3, TRUE, << Event("entityHierarchyChanged", entityId),
                        Event("entityUpdated", entityId) >>)

SetParent(s, entityId, newParentId) ==
    IF ~IsNumber(entityId) THEN Res(s, FALSE, <<>>)
    ELSE IF newParentId # NULL /\ ~IsNumber(newParentId) THEN Res(s, FALSE, <<>>)
    ELSE IF ~HasEntity(s, entityId) THEN Res(s, FALSE, <<>>)
    ELSE IF newParentId # NULL /\ ~HasEntity(s, newParentId) THEN Res(s, FALSE, <<>>)
    ELSE IF entityId = newParentId THEN Res(s, FALSE, <<>>)
    ELSE IF ~HasComponent(s, entityId, "transform") THEN Res(s, FALSE, <<>>)
    ELSE IF newParentId # NULL /\ ~HasComponent(s, newParentId, "transform")
         THEN Res(s, FALSE, <<>>)
    ELSE IF GetComponent(s, entityId, "transform").parent = newParentId
         THEN Res(s, TRUE, <<>>)
    ELSE LET walk == AncestorWalk(s, entityId, newParentId, {})
         IN CASE walk = "diverges" -> Hang(s)
              [] walk = "circular" -> Res(s, FALSE, <<>>)
              [] walk = "missing" -> Res(s, FALSE, <<>>)
              [] OTHER -> SetParentApply(s, entityId, newParentId)

\* ----------------------------------------------------------- removeEntity
\* TransformComponent.onRemove and the two assignments of removeEntity
ClearTransformLinks(s, entityId) ==
    IF HasComponent(s, entityId, "transform")
    THEN PutComponent(s, entityId, "transform", [parent |-> NULL, children |-> <<>>])
    ELSE s

RECURSIVE UnindexTypes(_, _, _)
UnindexTypes(s, entityId, types) ==
    IF types = {} THEN s
    ELSE LET t == CHOOSE x \in types : TRUE
         IN UnindexTypes(_removeComponentFromEntityMap(s, entityId, t),
                         entityId, types \ {t})

(* variant: the children are left alone *)
RemoveChildEntitiesSkipped(s, childrenIds, i) == Res(s, TRUE, <<>>)

RECURSIVE RemoveEntity(_, _)
RECURSIVE RemoveChildEntities(_, _, _)
RemoveChildEntities(s, childrenIds, i) ==
    IF i > Len(childrenIds) THEN Res(s, TRUE, <<>>)
    ELSE LET childId == childrenIds[i]
             r == IF HasEntity(s, childId) THEN RemoveEntity(s, childId)
                  ELSE Res(s, FALSE, <<>>)
             rest == RemoveChildEntities(r.em, childrenIds, i + 1)
         IN Res(rest.em, TRUE, r.events \o rest.events)

RemoveEntity(s, entityId) ==
    IF ~IsNumber(entityId) THEN Res(s, FALSE, <<>>)
    ELSE IF ~HasEntity(s, entityId) THEN Res(s, FALSE, <<>>)
    ELSE LET hasTransform == HasComponent(s, entityId, "transform")
             r1 == IF hasTransform
                      /\ GetComponent(s, entityId, "transform").parent # NULL
                   THEN SetParent(s, entityId, NULL)
                   ELSE Res(s, TRUE, <<>>)
             childrenIds == IF hasTransform
                            THEN GetComponent(r1.em, entityId, "transform").children
                            ELSE <<>>
             r2 == RemoveChildEntities(r1.em, childrenIds, 1)
             s3 == IF hasTransform THEN ClearTransformLinks(r2.em, entityId) ELSE r2.em
             s4 == IF entityId \in DOMAIN s3.entityComponents
                   THEN UnindexTypes(s3, entityId, DOMAIN s3.entityComponents[entityId])
                   ELSE s3
             s5 == [s4 EXCEPT !.entityComponents = MapDelete(@, entityId),
                              !.entities = SetDelete(@, entityId)]
         IN Res(s5, TRUE,
                r1.events \o r2.events \o << Event("entityRemoved", entityId) >>)

\* ----------------------------------------------------------- addComponent
\* data is [parent |-> v]: v = UNDEF when the data object has no parent key (or
\* an undefined one), otherwise the value of the key.  componentType ranges
\* over non-empty strings, entityId over numbers.
AddComponent(s, entityId, componentType, data) ==
    IF ~IsNumber(entityId) THEN Res(s, "null", <<>>)
    ELSE IF ~HasEntity(s, entityId) THEN Res(s, "null", <<>>)
    ELSE IF componentType \notin RegisteredTypes THEN Res(s, "null", <<>>)
    ELSE LET isNewComponent == ~HasComponent(s, entityId, componentType)
             emitted == << Event("componentAdded", entityId),
                           Event("entityUpdated", entityId) >>
         IN IF isNewComponent
            THEN LET s1 == PutComponent(s, entityId, componentType,
                                        NewComponent(componentType, data))
                     s2 == _addComponentToEntityMap(s1, entityId, componentType)
                 IN Res(s2, "component", emitted)
            ELSE LET requiresHierarchyUpdate ==
                         componentType = "transform" /\ data.parent # UNDEF
                     targetParent == data.parent
                     r == IF requiresHierarchyUpdate
                             /\ GetComponent(s, entityId, "transform").parent
                                    # targetParent
                          THEN SetParent(s, entityId, targetParent)
                          ELSE Res(s, TRUE, <<>>)
                 IN IF r.hung THEN Hang(s)
                    ELSE Res(r.em, "component", r.events \o emitted)

\* -------------------------------------------------------- removeComponent
RECURSIVE DetachChildren(_, _, _)
DetachChildren(s, childrenIds, i) ==
    IF i > Len(childrenIds) THEN Res(s, TRUE, <<>>)
    ELSE LET childId == childrenIds[i]
             r == IF HasEntity(s, childId) THEN SetParent(s, childId, NULL)
                  ELSE Res(s, FALSE, <<>>)
             rest == DetachChildren(r.em, childrenIds, i + 1)
         IN Res(rest.em, TRUE, r.events \o rest.events)

(* variant: a component that the entity does not have is removed all the same *)
RemoveComponentAbsentToo(s, entityId, componentType) ==
    IF ~HasEntity(s, entityId) THEN Res(s, FALSE, <<>>)
    ELSE Res(_removeComponentFromEntityMap(
                 [s EXCEPT !.entityComponents[entityId] = MapDelete(@, componentType)],
                 entityId, componentType),
             TRUE,
             << Event("componentRemoved", entityId), Event("entityUpdated", entityId) >>)
RemoveComponent(s, entityId, componentType) ==
    IF ~IsNumber(entityId) THEN Res(s, FALSE, <<>>)
    ELSE IF ~HasEntity(s, entityId) THEN Res(s, FALSE, <<>>)
    ELSE IF ~HasComponent(s, entityId, componentType) THEN Res(s, FALSE, <<>>)
    ELSE LET r1 == IF componentType = "transform"
                   THEN DetachChildren(
                            s, GetComponent(s, entityId, "transform").children, 1)
                   ELSE Res(s, TRUE, <<>>)
             currentParentId ==
                 IF componentType = "transform"
                 THEN GetComponent(r1.em, entityId, "transform").parent
                 ELSE NULL
             s2 == IF currentParentId # NULL
                   THEN _removeChild(r1.em, currentParentId, entityId)
                   ELSE r1.em
             s3 == [s2 EXCEPT !.entityComponents[entityId] = MapDelete(@, componentType)]
             s4 == _removeComponentFromEntityMap(s3, entityId, componentType)
         IN Res(s4, TRUE,
                r1.events \o << Event("componentRemoved", entityId),
                                Event("entityUpdated", entityId) >>)

\* ------------------------------------------------------------------ clear
RECURSIVE RemoveAll(_, _, _)
RemoveAll(s, entityIds, i) ==
    IF i > Len(entityIds) THEN Res(s, TRUE, <<>>)
    ELSE Then(RemoveEntity(s, entityIds[i]), LAMBDA r :
         Then(RemoveAll(r.em, entityIds, i + 1), LAMBDA rest :
         Res(rest.em, TRUE, r.events \o rest.events)))

\* (variant: the id counter is not reset)
ClearKeepsCounter(s) ==
    Then(RemoveAll(s, s.entities, 1), LAMBDA r :
    Res([EmptyStore EXCEPT !.nextEntityId = s.nextEntityId], "void",
        r.events \o << Event("sceneCleared", NULL) >>))

Clear(s) ==
    Then(RemoveAll(s, s.entities, 1), LAMBDA r :
    Res(EmptyStore, "void", r.events \o << Event("sceneCleared", NULL) >>))

\* ------------------------------------------------------------ deserialize
\* A scene document is a sequence of records [id, components]; components maps
\* a type name to the component's data [parent |-> v] (v = UNDEF: no such key).

\* _restoreSingleEntityBase: always returns true (nothing in it throws)
RECURSIVE RemoveComponentsOf(_, _, _)
RemoveComponentsOf(s, id, types) ==
    IF types = {} THEN Res(s, TRUE, <<>>)
    ELSE LET t == CHOOSE x \in types : TRUE
         IN Then(RemoveComponent(s, id, t), LAMBDA r :
            Then(RemoveComponentsOf(r.em, id, types \ {t}), LAMBDA rest :
            Res(rest.em, TRUE, r.events \o rest.events)))

_restoreSingleEntityBase(s, id) ==
    IF HasEntity(s, id)
    THEN Then(IF id \in DOMAIN s.entityComponents
              THEN RemoveComponentsOf(s, id, DOMAIN s.entityComponents[id])
              ELSE Res(s, TRUE, <<>>),
              LAMBDA r :
              Res([r.em EXCEPT !.entityComponents = MapSet(@, id, EmptyMap)],
                  TRUE, r.events))
    ELSE Res([s EXCEPT !.entities = SetAdd(@, id),
                       !.entityComponents = MapSet(@, id, EmptyMap),
                       !.nextEntityId = IF id >= @ THEN id + 1 ELSE @],
             TRUE, <<>>)

\* _restoreEntityComponents: ret is true iff no component failed.  The parent
\* (and children) of a transform record is stripped before addComponent.
RECURSIVE _restoreEntityComponents(_, _, _, _)
_restoreEntityComponents(s, id, componentsData, types) ==
    IF types = {} THEN Res(s, TRUE, <<>>)
    ELSE LET t == CHOOSE x \in types : TRUE
         IN Then(IF t \notin RegisteredTypes THEN Res(s, "null", <<>>)
                 ELSE AddComponent(s, id, t, [parent |-> UNDEF]),
                 LAMBDA r :
            Then(_restoreEntityComponents(r.em, id, componentsData, types \ {t}),
                 LAMBDA rest :
            Res(rest.em, (r.ret # "null") /\ rest.ret, r.events \o rest.events)))

\* pass 1; acc = [em, highestId, restoredEntityIds, failed, events]
RECURSIVE DeserializePass1(_, _, _)
DeserializePass1(acc, doc, i) ==
    IF i > Len(doc) THEN acc
    ELSE LET entityData == doc[i]
             id == entityData.id
         IN IF ~IsNumber(id)
            THEN DeserializePass1([acc EXCEPT !.failed = TRUE], doc, i + 1)
            ELSE Then(_restoreSingleEntityBase(acc.em, id), LAMBDA rb :
                 Then(_restoreEntityComponents(rb.em, id, entityData.components,
                                               DOMAIN entityData.components),
                      LAMBDA rc :
                 Then([acc EXCEPT !.em = rc.em,
                                  !.events = @ \o rb.events \o rc.events],
                      LAMBDA acc1 :
                 IF rc.ret
                 THEN Then([acc1 EXCEPT !.highestId = IF id > @ THEN id ELSE @,
                                        !.restoredEntityIds = SetAdd(@, id)],
                           LAMBDA acc2 : DeserializePass1(acc2, doc, i + 1))
                 ELSE Then([acc1 EXCEPT !.failed = TRUE],
                           LAMBDA acc2 : DeserializePass1(acc2, doc, i + 1)))))

\* data.entities.find(e => e.id === entityId): the first record with that id
FindEntityData(doc, entityId) ==
    doc[CHOOSE i \in DOMAIN doc :
            /\ doc[i].id = entityId
            /\ \A j \in DOMAIN doc : doc[j].id = entityId => i <= j]

\* pass 2; acc = [em, hierarchyErrors, events, hung]
RECURSIVE DeserializePass2(_, _, _, _)
DeserializePass2(acc, doc, restoredEntityIds, i) ==
    IF i > Len(restoredEntityIds) \/ acc.hung THEN acc
    ELSE LET entityId == restoredEntityIds[i]
             entityData == FindEntityData(doc, entityId)
             hasParentKey == /\ "transform" \in DOMAIN entityData.components
                             /\ entityData.components["transform"].parent # UNDEF
             targetParentId == entityData.components["transform"].parent
         IN IF ~hasParentKey
            THEN DeserializePass2(acc, doc, restoredEntityIds, i + 1)
            ELSE IF targetParentId # NULL
                    /\ (~IsNumber(targetParentId)
                        \/ targetParentId \notin Range(restoredEntityIds))
            THEN Then(SetParent(acc.em, entityId, NULL), LAMBDA r :
                 Then([acc EXCEPT !.em = r.em, !.hierarchyErrors = TRUE,
                                  !.events = @ \o r.events, !.hung = r.hung],
                      LAMBDA acc1 :
                 DeserializePass2(acc1, doc, restoredEntityIds, i + 1)))
            ELSE Then(SetParent(acc.em, entityId, targetParentId), LAMBDA r :
                 Then([acc EXCEPT !.em = r.em,
                                  !.hierarchyErrors = @ \/ (r.ret = FALSE),
                                  !.events = @ \o r.events, !.hung = r.hung],
                      LAMBDA acc1 :
                 DeserializePass2(acc1, doc, restoredEntityIds, i + 1)))

\* the loop that adjusts nextEntityId after the import
RECURSIVE SkipLive(_, _)
SkipLive(s, n) == IF n \in Range(s.entities) THEN SkipLive(s, n + 1) ELSE n

\* input = [valid, entities]: valid is false for an input that does not parse
\* or has no entities array
Deserialize(s, input) ==
    IF ~input.valid
    THEN Then(Clear(s), LAMBDA c : Res(c.em, FALSE, c.events))
    ELSE LET doc == input.entities
         IN Then(Clear(s), LAMBDA c :
            Then(DeserializePass1(
                     [em |-> c.em, highestId |-> 0, restoredEntityIds |-> <<>>,
                      failed |-> FALSE, events |-> <<>>],
                     doc, 1),
                 LAMBDA p1 :
            Then(DeserializePass2(
                     [em |-> p1.em, hierarchyErrors |-> FALSE, events |-> <<>>,
                      hung |-> FALSE],
                     doc, p1.restoredEntityIds, 1),
                 LAMBDA p2 :
            IF p2.hung THEN Hang(p2.em)
            ELSE Res([p2.em EXCEPT !.nextEntityId =
                                       SkipLive(p2.em, p1.highestId + 1)],
                     ~p1.failed /\ ~p2.hierarchyErrors,
                     c.events \o p1.events \o p2.events
                       \o << Event("sceneImported", NULL) >>))))

\* the scene documents given to deserialize in the model
DocComponents ==
    {[t \in {"transform"} |-> [parent |-> p]] : p \in {UNDEF} \cup Ids}
DocRecords == [id : Ids, components : DocComponents]
RECURSIVE DocsOfLen(_)
DocsOfLen(n) ==
    IF n = 0 THEN {<<>>}
    ELSE {Append(d, r) : d \in DocsOfLen(n - 1), r \in DocRecords}
Docs == UNION {DocsOfLen(n) : n \in 0..MaxDocLen}
SceneInputs ==
    {[valid |-> TRUE, entities |-> d] : d \in Docs}
      \cup {[valid |-> FALSE, entities |-> <<>>]}

\* ------------------------------------------------------------- the state
VARIABLES
    em,        \* the EntityManager's fields
    last,      \* the last public call: [op, ret]
    events,    \* events the last call emitted on the hub, in order
    hung,      \* the last call entered a loop that never ends
    undoStack,   \* CommandManager.undoStack, oldest first
    redoStack,   \* CommandManager.redoStack
    isExecuting, \* CommandManager.isExecuting
    frames,      \* CommandManager methods on the call stack, outermost first
    cmStep,      \* what the last CommandManager step did
    scenario,    \* how far the latest calls of the application follow
                 \* execute(c1); undo(); execute(c2); redo()
    systems,        \* SystemManager.systems: name -> system object
    systemStates,   \* SystemManager.systemStates, in insertion order
    executionOrder, \* SystemManager.executionOrder
    pendingInits,   \* register calls waiting for their system's initialize
    initialized,    \* system objects whose initialize has returned normally
    nextSystem,     \* the next system object to be handed to register
    smStep,         \* what the last SystemManager step did
    engine,         \* the Engine's editor fields: selectedEntityId, mode
    hub,            \* the EventEmitter: its listeners and the emits under way
    assetManager    \* the AssetManager: its cache, its loads and their callers

storeVars == <<em, last, events, hung>>
cmVars == <<undoStack, redoStack, isExecuting, frames, cmStep, scenario>>
smVars == <<systems, systemStates, executionOrder, pendingInits, initialized,
            nextSystem, smStep>>
envVars == <<engine, hub, assetManager>>
vars == <<em, last, events, hung, undoStack, redoStack, isExecuting, frames, cmStep,
          scenario, systems, systemStates, executionOrder, pendingInits, initialized,
          nextSystem, smStep, engine, hub, assetManager>>

NoCall == [op |-> "none", ret |-> FALSE]

\* no CommandManager step yet
NoStep ==
    [kind |-> "none", fn |-> "none", cmd |-> 0, result |-> "none", depth |-> 0,
     undoBefore |-> <<>>, redoBefore |-> <<>>, own |-> FALSE, changes |-> 0]

\* the latest calls of the application are no part of the call sequence
NoScenario == [stage |-> "idle", c1 |-> 0, c2 |-> 0]

\* new CommandManager()
CmInit ==
    /\ undoStack = <<>>
    /\ redoStack = <<>>
    /\ isExecuting = FALSE
    /\ frames = <<>>
    /\ cmStep = NoStep
    /\ scenario = NoScenario

StoreInit ==
    /\ em = EmptyStore
    /\ last = NoCall
    /\ events = <<>>
    /\ hung = FALSE

\* no SystemManager step yet
NoSmStep ==
    [op |-> "none", name |-> "", system |-> 0, fail |-> <<>>, trace |-> <<>>,
     thrown |-> <<>>]

\* new SystemManager(entityManager, eventEmitter, engine)
SmInit ==
    /\ systems = EmptyMap
    /\ systemStates = <<>>
    /\ executionOrder = <<>>
    /\ pendingInits = {}
    /\ initialized = {}
    /\ nextSystem = 1
    /\ smStep = NoSmStep

\* new Engine(container): nothing selected, editor mode
EngineInit == engine = [selectedEntityId |-> NULL, mode |-> "editor"]

\* the events of the model's hub
HubEvents == {"change", "entitySelected"}
\* no emit has returned yet
NoEmit == [event |-> "none", listeners |-> <<>>, invoked |-> <<>>, propagated |-> FALSE]

\* new EventEmitter(): no listeners (an event without an entry in a Map is
\* an event with no listeners: emit and off return at once, on creates it)
HubInit ==
    hub = [listeners |-> [e \in HubEvents |-> <<>>],
           onceListeners |-> [e \in HubEvents |-> <<>>],
           nextWrapper |-> 1,
           emits |-> <<>>,
           done |-> NoEmit]

\* load calls made in one behaviour
MaxLoads == 4
\* load promises created in one behaviour
MaxRequests == 3

\* a path is a sequence of tokens: slashes and one file name with its extension
Slash == [base |-> "/", ext |-> ""]
FileNames == {[base |-> "a", ext |-> "png"], [base |-> "b", ext |-> "txt"]}
\* the paths handed to load: with or without a leading slash, or empty
RawPaths == {<<>>, << Slash >>} \cup {<< n >> : n \in FileNames}
                \cup {<< Slash, n >> : n \in FileNames}
\* the keys of the cache and of the loading map
AssetKeys == {<< n >> : n \in FileNames}

\* new AssetManager(eventEmitter): both maps are empty.  requests are the
\* load promises in creation order (a promise is named by its position, and a
\* loader that succeeds delivers the asset of that name); calls are the load
\* calls made so far.
AmInit ==
    assetManager = [assets |-> [k \in AssetKeys |-> NULL],
                    loadingPromises |-> [k \in AssetKeys |-> NULL],
                    requests |-> <<>>,
                    calls |-> <<>>]

EnvInit == EngineInit /\ HubInit /\ AmInit

Init == StoreInit /\ CmInit /\ SmInit /\ EnvInit

\* a public call of the store: its effect, its return value and its events
Call(op, r) ==
    /\ ~hung
    /\ em' = r.em
    /\ last' = [op |-> op, ret |-> r.ret]
    /\ events' = r.events
    /\ hung' = r.hung
    /\ UNCHANGED cmVars
    /\ UNCHANGED <<smVars, envVars>>

DoCreateEntity ==
    /\ CreateEntityId(em) <= MaxId
    /\ Call("createEntity", CreateEntity(em))

DoRemoveEntity ==
    \E entityId \in ArgIds :
        Call("removeEntity", RemoveEntity(em, entityId))

DoAddComponent ==
    \E entityId \in ArgIds, componentType \in Types,
       parent \in {UNDEF} \cup ParentArgs :
        /\ componentType # "transform" => parent = UNDEF
        /\ Call("addComponent", AddComponent(em, entityId, componentType, [parent |-> parent]))

DoRemoveComponent ==
    \E entityId \in ArgIds, componentType \in Types :
        Call("removeComponent", RemoveComponent(em, entityId, componentType))

DoSetParent ==
    \E entityId \in ArgIds, newParentId \in ParentArgs :
        Call("setParent", SetParent(em, entityId, newParentId))

DoClear == Call("clear", Clear(em))

DoDeserialize ==
    \E input \in SceneInputs :
        Call("deserialize", Deserialize(em, input))

Next ==
    \/ DoCreateEntity
    \/ DoRemoveEntity
    \/ DoAddComponent
    \/ DoRemoveComponent
    \/ DoSetParent
    \/ DoClear
    \/ DoDeserialize

Spec == Init /\ [][Next]_vars

\* ------------------------------------------- setParent on a forest of roots
\* number of entities of the hierarchy-only specification
HierN == 4
HierIds == 1..HierN

\* createEntity(); addComponent(id, 'transform', {}) for HierN entities
RECURSIVE RootsOnly(_)
RootsOnly(n) ==
    IF n = 0 THEN EmptyStore
    ELSE LET c == CreateEntity(RootsOnly(n - 1))
         IN AddComponent(c.em, c.ret, "transform", [parent |-> UNDEF]).em

HierInit ==
    /\ em = RootsOnly(HierN)
    /\ last = NoCall
    /\ events = <<>>
    /\ hung = FALSE
    /\ CmInit
    /\ SmInit
    /\ EnvInit

HierSetParent ==
    \E entityId \in HierIds, newParentId \in {NULL} \cup HierIds :
        Call("setParent", SetParent(em, entityId, newParentId))

SpecHier == HierInit /\ [][HierSetParent]_vars

\* ---------------------------------------------------------- id allocation
\* ids that createEntity may allocate in the allocation specifications
AllocN == 5
AllocIds == 1..AllocN

AllocCreateEntity ==
    /\ CreateEntityId(em) <= AllocN
    /\ Call("createEntity", CreateEntity(em))

AllocRemoveEntity ==
    \E entityId \in 1..(AllocN + 1) :
        Call("removeEntity", RemoveEntity(em, entityId))

\* createEntity and removeEntity only
NextAlloc ==
    \/ AllocCreateEntity
    \/ AllocRemoveEntity

SpecAlloc == Init /\ [][NextAlloc]_vars

\* scene documents whose entities come without components, with a transform
\* or with a component of a type that is not registered (such an entity stays
\* live but does not count as restored)
AllocDocComponents ==
    {[t \in T |-> [parent |-> UNDEF]] : T \in {{}, {"transform"}, {"ghost"}}}
AllocDocRecords == [id : 1..3, components : AllocDocComponents]
AllocDocs ==
    {<<>>} \cup {<< r >> : r \in AllocDocRecords}
           \cup {<< r1, r2 >> : r1 \in AllocDocRecords, r2 \in AllocDocRecords}
AllocSceneInputs ==
    {[valid |-> TRUE, entities |-> d] : d \in AllocDocs}
      \cup {[valid |-> FALSE, entities |-> <<>>]}

AllocDeserialize ==
    \E input \in AllocSceneInputs :
        Call("deserialize", Deserialize(em, input))

\* createEntity, removeEntity, deserialize and clear
NextIds ==
    \/ AllocCreateEntity
    \/ AllocRemoveEntity
    \/ AllocDeserialize
    \/ DoClear

SpecIds == Init /\ [][NextIds]_vars

\* ------------------------------------------------- hierarchies of entities
\* entities of the specification of the hierarchy calls
TreeN == 3
TreeIds == 1..TreeN

TreeCreateEntity ==
    /\ CreateEntityId(em) <= TreeN
    /\ Call("createEntity", CreateEntity(em))

TreeAddTransform ==
    \E entityId \in TreeIds, parent \in {UNDEF, NULL} \cup TreeIds :
        Call("addComponent",
             AddComponent(em, entityId, "transform", [parent |-> parent]))

TreeSetParent ==
    \E entityId \in TreeIds, newParentId \in {NULL} \cup TreeIds :
        Call("setParent", SetParent(em, entityId, newParentId))

TreeRemoveComponent ==
    \E entityId \in TreeIds :
        Call("removeComponent", RemoveComponent(em, entityId, "transform"))

TreeRemoveEntity ==
    \E entityId \in TreeIds :
        Call("removeEntity", RemoveEntity(em, entityId))

NextTree ==
    \/ TreeCreateEntity
    \/ TreeAddTransform
    \/ TreeSetParent
    \/ TreeRemoveComponent
    \/ TreeRemoveEntity

SpecTree == Init /\ [][NextTree]_vars

\* ------------------------------------------------------- scene documents
\* a value that is neither a number nor null (a string, say)
NotANumber == -3

\* ids of the records: 0 is a number that is no positive integer
SceneDocIds == 0..MaxId
\* an entity comes without components, with a transform (whose parent key is
\* absent, null, no number, the id of a record or an id of no record), with a
\* component of a type that is not registered, or with both
SceneDocComponents ==
    {[t \in {} |-> [parent |-> UNDEF]]}
      \cup {[t \in {"transform"} |-> [parent |-> p]] :
               p \in {UNDEF, NULL, NotANumber} \cup ArgIds}
      \cup {[t \in {"ghost"} |-> [parent |-> UNDEF]]}
      \cup {[t \in {"transform", "ghost"} |-> [parent |-> UNDEF]]}
SceneDocRecords == [id : SceneDocIds, components : SceneDocComponents]
SceneDocs ==
    {<<>>} \cup {<< r >> : r \in SceneDocRecords}
           \cup {<< r1, r2 >> : r1 \in SceneDocRecords, r2 \in SceneDocRecords}

\* live entities of a store that a document is imported into (deserialize
\* begins with clear(): what the store held shows in the first events only)
SceneMaxLive == 0

\* deserialize(document); the model keeps the document with the call
SceneDeserialize ==
    /\ ~hung
    /\ Len(em.entities) <= SceneMaxLive
    /\ \E doc \in SceneDocs :
        \E r \in {Deserialize(em, [valid |-> TRUE, entities |-> doc])} :
            /\ em' = r.em
            /\ last' = [op |-> "deserialize", ret |-> r.ret, doc |-> doc]
            /\ events' = r.events
            /\ hung' = r.hung
            /\ UNCHANGED <<cmVars, smVars, envVars>>

\* deserialize, and createEntity and clear between two imports
NextScene ==
    \/ SceneDeserialize
    \/ DoCreateEntity
    \/ DoClear

SpecScene == Init /\ [][NextScene]_vars

\* -------------------------------------------------------------- serialize
\* Array.from(this.entities).sort((a, b) => a - b)
RECURSIVE SortedIds(_)
SortedIds(ids) ==
    IF ids = {} THEN <<>>
    ELSE LET least == CHOOSE i \in ids : \A j \in ids : i <= j
         IN << least >> \o SortedIds(ids \ {least})

\* comp.serialize(): a transform writes its parent field (null or a number),
\* never its children; other components have no parent key
SerializeComponent(s, entityId, componentType) ==
    IF componentType = "transform"
    THEN [parent |-> GetComponent(s, entityId, "transform").parent]
    ELSE [parent |-> UNDEF]

\* getEntityState(entityId)
GetEntityState(s, entityId) ==
    [id |-> entityId,
     components |-> [t \in DOMAIN s.entityComponents[entityId] |->
                        SerializeComponent(s, entityId, t)]]

\* serialize(): the entities array of the document.  JSON.stringify followed
\* by JSON.parse gives back these numbers and nulls as they are.
Serialize(s) ==
    LET ids == SortedIds(Range(s.entities))
    IN [i \in DOMAIN ids |-> GetEntityState(s, ids[i])]

\* deserialize(serialize()); the model keeps the store of before the call
SceneRoundTrip ==
    /\ ~hung
    /\ \E r \in {Deserialize(em, [valid |-> TRUE, entities |-> Serialize(em)])} :
          /\ em' = r.em
          /\ last' = [op |-> "roundTrip", ret |-> r.ret, before |-> em]
          /\ events' = r.events
          /\ hung' = r.hung
          /\ UNCHANGED <<cmVars, smVars, envVars>>

\* the public calls that build a store, and the round trip
NextRoundTrip ==
    \/ DoCreateEntity
    \/ DoRemoveEntity
    \/ DoAddComponent
    \/ DoRemoveComponent
    \/ DoSetParent
    \/ DoClear
    \/ SceneRoundTrip

SpecRoundTrip == Init /\ [][NextRoundTrip]_vars

\* ---------------------------------------------------------------- queries
MaxTypes == 2
\* the type names a query may list: the registered ones, one that was never
\* registered and the blank one
QueryTypes == Types \cup {""}
QueryLists == UNION {[1..n -> QueryTypes] : n \in 0..MaxTypes}

DoGetEntitiesWithComponents ==
    /\ ~hung
    /\ \E componentTypes \in QueryLists :
          /\ last' = [op |-> "getEntitiesWithComponents",
                      ret |-> GetEntitiesWithComponents(em, componentTypes),
                      types |-> componentTypes]
          /\ events' = <<>>
          /\ UNCHANGED <<em, hung, cmVars, smVars, envVars>>

NextQuery ==
    \/ DoCreateEntity
    \/ DoRemoveEntity
    \/ DoAddComponent
    \/ DoRemoveComponent
    \/ DoClear
    \/ DoGetEntitiesWithComponents

SpecQuery == Init /\ [][NextQuery]_vars

\* --------------------------------------------------------- CommandManager
\* CommandManager.maxStackSize as configured for the model
MaxStackSize == 2
\* command objects of the model
NumCommands == 3
\* calls that the code running inside one CommandManager method (a command
\* body or 'change' listeners) makes back into the CommandManager
MaxNested == 2
\* CommandManager methods nested on the call stack
MaxDepth == 2

Commands == 1..NumCommands
\* command.isUndoable: the last command is a non-undoable one (SaveScene,
\* LoadScene), the others are undoable
IsUndoable(c) == c < NumCommands
\* an argument of execute that is not an instance of Command
NotACommand == 0

\* A frame is a CommandManager method that has called out and not returned:
\*   at = "body"      command.execute() / command.undo() is running
\*   at = "listeners" emit('change') is running the listeners
\* pending is the outcome the method reports when the listeners return; busy
\* says that this method set isExecuting and resets it in its finally block;
\* own says that the method itself has emitted 'change', changes counts the
\* 'change' events emitted since the method was entered; calls counts the
\* calls made from inside it.
Frame(fn, c, at, pending, busy, own, changes) ==
    [fn |-> fn, cmd |-> c, at |-> at, pending |-> pending, busy |-> busy,
     undoBefore |-> undoStack, redoBefore |-> redoStack,
     own |-> own, changes |-> changes, calls |-> 0]

Depth == Len(frames)
Top == frames[Len(frames)]
\* a command method or a listener is running, or nothing is (the caller is the
\* application): code outside the CommandManager is in control and may call it
MayCall == IF frames = <<>> THEN TRUE ELSE Top.calls < MaxNested

\* the frames after the code in control has made one more call
Counted ==
    IF frames = <<>> THEN frames
    ELSE [frames EXCEPT ![Len(frames)].calls = @ + 1]

\* every method on the call stack has seen one more 'change' event
Emitted(fs) == [i \in DOMAIN fs |-> [fs[i] EXCEPT !.changes = @ + 1]]

Step(kind, fn, c, result, ub, rb, own, changes) ==
    [kind |-> kind, fn |-> fn, cmd |-> c, result |-> result, depth |-> Depth,
     undoBefore |-> ub, redoBefore |-> rb, own |-> own, changes |-> changes]

\* the call returns at once: nothing but the bookkeeping of the model changes
Rejected(fn, c, result) ==
    /\ frames' = Counted
    /\ cmStep' = Step("reject", fn, c, result, undoStack, redoStack, FALSE, 0)
    /\ UNCHANGED <<undoStack, redoStack, isExecuting>>

\* the guard of execute / undo / redo
(* variant: the reentrancy guard is missing *)
BusyUnguarded == FALSE
Busy == isExecuting

\* undoStack.push(command) followed by the shift() that keeps the stack bounded
(* variant: the newest entry is dropped instead of the oldest *)
PushBoundedDropNewest(stack, c) ==
    IF Len(stack) + 1 > MaxStackSize THEN stack ELSE Append(stack, c)
PushBounded(stack, c) ==
    LET pushed == Append(stack, c)
    IN IF Len(pushed) > MaxStackSize THEN Tail(pushed) ELSE pushed

\* the stacks after command.execute() returned normally under execute
(* variant: a command that is not undoable leaves the redo stack alone *)
ExecuteSucceededKeepsRedo(undo, redo, c) ==
    IF IsUndoable(c)
    THEN [undoStack |-> PushBounded(undo, c), redoStack |-> <<>>]
    ELSE [undoStack |-> undo, redoStack |-> redo]
ExecuteSucceeded(undo, redo, c) ==
    IF IsUndoable(c)
    THEN [undoStack |-> PushBounded(undo, c), redoStack |-> <<>>]
    ELSE [undoStack |-> undo,
          redoStack |-> IF Len(redo) > 0 THEN <<>> ELSE redo]

\* the stacks after command.execute() threw under execute: the catch block
\* logs the error and touches neither stack
(* variant: the failed command is pushed all the same *)
ExecuteThrewPushed(undo, redo, c) ==
    [undoStack |-> Append(undo, c), redoStack |-> redo]
ExecuteThrew(undo, redo, c) ==
    [undoStack |-> undo, redoStack |-> redo]

\* the stacks after command.undo() returned normally under undo
UndoSucceeded(undo, redo, c) ==
    [undoStack |-> undo, redoStack |-> Append(redo, c)]

\* the stacks after command.undo() threw under undo: the catch block
(* variant: the command goes to the redo stack although it was not undone *)
UndoThrewToRedo(undo, redo, c) ==
    [undoStack |-> undo, redoStack |-> Append(redo, c)]
UndoThrew(undo, redo, c) ==
    [undoStack |-> Append(undo, c), redoStack |-> redo]

\* the stacks after command.execute() returned normally under redo
RedoSucceeded(undo, redo, c) ==
    [undoStack |-> Append(undo, c), redoStack |-> redo]

\* the stacks after command.execute() threw under redo: the catch block
(* variant: the command goes to the undo stack although it was not redone *)
RedoThrewToUndo(undo, redo, c) ==
    [undoStack |-> Append(undo, c), redoStack |-> redo]
RedoThrew(undo, redo, c) ==
    [undoStack |-> undo, redoStack |-> Append(redo, c)]

\* The application's calls seen as the sequence execute(c1); undo();
\* execute(c2); redo().  A call of the application is one made while no
\* CommandManager method is on the call stack (depth 0); calls made by command
\* bodies and listeners belong to the call in progress.  Every execute of a
\* command that is on neither stack starts the sequence afresh.
Observe(sc, st, undo, redo) ==
    LET outer == st.depth = 0
        returns == outer /\ st.kind = "return"
        fresh == /\ st.kind = "enter"
                 /\ st.fn = "execute"
                 /\ st.cmd \notin Range(undo) \cup Range(redo)
        restart == IF fresh THEN [stage |-> "executing1", c1 |-> st.cmd, c2 |-> 0]
                   ELSE NoScenario
    IN IF ~outer THEN sc
       ELSE IF returns
       THEN IF st.result = "done" /\ sc.stage = "executing1"
            THEN [sc EXCEPT !.stage = "executed1"]
            ELSE IF st.result = "done" /\ sc.stage = "undoing"
            THEN [sc EXCEPT !.stage = "undone"]
            ELSE IF st.result = "done" /\ sc.stage = "executing2"
            THEN [sc EXCEPT !.stage = "executed2"]
            ELSE NoScenario
       ELSE IF sc.stage = "executed1" /\ st.fn = "undo" /\ st.kind = "enter"
       THEN [sc EXCEPT !.stage = "undoing"]
       ELSE IF sc.stage = "executed1" /\ st.fn = "undo" /\ st.kind = "reject"
       THEN [sc EXCEPT !.stage = "undone"]
       ELSE IF /\ sc.stage = "undone"
               /\ st.fn = "execute"
               /\ st.kind = "enter"
               /\ st.cmd # sc.c1
       THEN [sc EXCEPT !.stage = "executing2", !.c2 = st.cmd]
       ELSE IF sc.stage = "executed2" /\ st.fn = "redo"
       THEN [sc EXCEPT !.stage = "redo"]
       ELSE restart

\* the step just taken, seen by the observer of the call sequence
Observed == scenario' = Observe(scenario, cmStep', undoStack, redoStack)

\* execute(command) up to the call of command.execute()
CmExecute ==
    \E c \in Commands \cup {NotACommand} :
        /\ MayCall
        /\ IF c = NotACommand THEN Rejected("execute", c, "invalid")
           ELSE IF Busy THEN Rejected("execute", c, "busy")
           ELSE /\ Depth < MaxDepth
                /\ isExecuting' = TRUE
                /\ frames' = Append(Counted,
                                    Frame("execute", c, "body", "done", TRUE, FALSE, 0))
                /\ cmStep' = Step("enter", "execute", c, "none",
                                  undoStack, redoStack, FALSE, 0)
                /\ UNCHANGED <<undoStack, redoStack>>
        /\ UNCHANGED <<storeVars, smVars, envVars>>
        /\ Observed

\* undo() up to the call of command.undo()
CmUndo ==
    /\ MayCall
    /\ IF Busy \/ undoStack = <<>> THEN Rejected("undo", 0, IF Busy THEN "busy" ELSE "empty")
       ELSE LET command == undoStack[Len(undoStack)]
                popped == SubSeq(undoStack, 1, Len(undoStack) - 1)
            IN /\ Depth < MaxDepth
               /\ undoStack' = popped
               /\ redoStack' = redoStack
               /\ IF ~IsUndoable(command)
                  THEN /\ isExecuting' = isExecuting
                       /\ frames' = Emitted(Append(Counted,
                              Frame("undo", command, "listeners", "skipped",
                                    FALSE, TRUE, 0)))
                       /\ cmStep' = Step("emit", "undo", command, "skipped",
                                         undoStack, redoStack, TRUE, 1)
                  ELSE /\ isExecuting' = TRUE
                       /\ frames' = Append(Counted,
                              Frame("undo", command, "body", "done", TRUE, FALSE, 0))
                       /\ cmStep' = Step("enter", "undo", command, "none",
                                         undoStack, redoStack, FALSE, 0)
    /\ UNCHANGED <<storeVars, smVars, envVars>>
    /\ Observed

\* redo() up to the call of command.execute()
CmRedo ==
    /\ MayCall
    /\ IF Busy \/ redoStack = <<>> THEN Rejected("redo", 0, IF Busy THEN "busy" ELSE "empty")
       ELSE LET command == redoStack[Len(redoStack)]
                popped == SubSeq(redoStack, 1, Len(redoStack) - 1)
            IN /\ Depth < MaxDepth
               /\ redoStack' = popped
               /\ undoStack' = undoStack
               /\ IF ~IsUndoable(command)
                  THEN /\ isExecuting' = isExecuting
                       /\ frames' = Emitted(Append(Counted,
                              Frame("redo", command, "listeners", "skipped",
                                    FALSE, TRUE, 0)))
                       /\ cmStep' = Step("emit", "redo", command, "skipped",
                                         undoStack, redoStack, TRUE, 1)
                  ELSE /\ isExecuting' = TRUE
                       /\ frames' = Append(Counted,
                              Frame("redo", command, "body", "done", TRUE, FALSE, 0))
                       /\ cmStep' = Step("enter", "redo", command, "none",
                                         undoStack, redoStack, FALSE, 0)
    /\ UNCHANGED <<storeVars, smVars, envVars>>
    /\ Observed

\* clear() up to the listeners of its 'change' event
CmClear ==
    /\ MayCall
    /\ Depth < MaxDepth + 1
    /\ undoStack' = <<>>
    /\ redoStack' = <<>>
    /\ frames' = Emitted(Append(Counted,
                     Frame("clear", 0, "listeners", "cleared", FALSE, TRUE, 0)))
    /\ cmStep' = Step("emit", "clear", 0, "cleared", undoStack, redoStack, TRUE, 1)
    /\ UNCHANGED isExecuting
    /\ UNCHANGED <<storeVars, smVars, envVars>>
    /\ Observed

\* this.emit('change') in the method on top of the call stack, whose outcome
\* is `pending`: the listeners run next
(* variant: the event is not emitted *)
AtListenersSilent(pending) ==
    [frames EXCEPT ![Len(frames)].at = "listeners",
                   ![Len(frames)].pending = pending]
AtListeners(pending) ==
    Emitted([frames EXCEPT ![Len(frames)].at = "listeners",
                           ![Len(frames)].pending = pending,
                           ![Len(frames)].own = TRUE])

\* command.execute() / command.undo() returns normally: the rest of the try
\* block, up to the listeners of 'change'
CmBodyReturns ==
    /\ frames # <<>>
    /\ Top.at = "body"
    /\ LET c == Top.cmd
       IN CASE Top.fn = "execute" ->
                 /\ undoStack' = ExecuteSucceeded(undoStack, redoStack, c).undoStack
                 /\ redoStack' = ExecuteSucceeded(undoStack, redoStack, c).redoStack
            [] Top.fn = "undo" ->
                 /\ undoStack' = UndoSucceeded(undoStack, redoStack, c).undoStack
                 /\ redoStack' = UndoSucceeded(undoStack, redoStack, c).redoStack
            [] Top.fn = "redo" ->
                 /\ undoStack' = RedoSucceeded(undoStack, redoStack, c).undoStack
                 /\ redoStack' = RedoSucceeded(undoStack, redoStack, c).redoStack
    /\ frames' = AtListeners("done")
    /\ cmStep' = Step("emit", Top.fn, Top.cmd, "done", undoStack, redoStack,
                      frames'[Len(frames)].own, frames'[Len(frames)].changes)
    /\ UNCHANGED isExecuting
    /\ UNCHANGED <<storeVars, smVars, envVars>>
    /\ Observed

\* command.execute() / command.undo() throws: the catch block.  execute only
\* logs and runs its finally block; undo and redo put the command back and
\* emit 'change'.
CmBodyThrows ==
    /\ frames # <<>>
    /\ Top.at = "body"
    /\ LET c == Top.cmd
       IN CASE Top.fn = "execute" ->
                 /\ isExecuting' = FALSE
                 /\ frames' = SubSeq(frames, 1, Len(frames) - 1)
                 /\ cmStep' = [Step("return", "execute", c, "threw",
                                    Top.undoBefore, Top.redoBefore,
                                    Top.own, Top.changes)
                                 EXCEPT !.depth = Depth - 1]
                 /\ undoStack' = ExecuteThrew(undoStack, redoStack, c).undoStack
                 /\ redoStack' = ExecuteThrew(undoStack, redoStack, c).redoStack
            [] Top.fn = "undo" ->
                 /\ undoStack' = UndoThrew(undoStack, redoStack, c).undoStack
                 /\ redoStack' = UndoThrew(undoStack, redoStack, c).redoStack
                 /\ frames' = AtListeners("threw")
                 /\ cmStep' = Step("emit", "undo", c, "threw", undoStack, redoStack,
                                   TRUE, Top.changes + 1)
                 /\ UNCHANGED isExecuting
            [] Top.fn = "redo" ->
                 /\ undoStack' = RedoThrew(undoStack, redoStack, c).undoStack
                 /\ redoStack' = RedoThrew(undoStack, redoStack, c).redoStack
                 /\ frames' = AtListeners("threw")
                 /\ cmStep' = Step("emit", "redo", c, "threw", undoStack, redoStack,
                                   TRUE, Top.changes + 1)
                 /\ UNCHANGED isExecuting
    /\ UNCHANGED <<storeVars, smVars, envVars>>
    /\ Observed

\* emit('change') returns: the finally block and the return of the method
CmListenersReturn ==
    /\ frames # <<>>
    /\ Top.at = "listeners"
    /\ isExecuting' = IF Top.busy THEN FALSE ELSE isExecuting
    /\ frames' = SubSeq(frames, 1, Len(frames) - 1)
    /\ cmStep' = [Step("return", Top.fn, Top.cmd, Top.pending,
                       Top.undoBefore, Top.redoBefore, Top.own, Top.changes)
                    EXCEPT !.depth = Depth - 1]
    /\ UNCHANGED <<undoStack, redoStack>>
    /\ UNCHANGED <<storeVars, smVars, envVars>>
    /\ Observed

\* canUndo() / canRedo()
CanUndo == Len(undoStack) > 0 /\ ~isExecuting
CanRedo == Len(redoStack) > 0 /\ ~isExecuting

NextCmd ==
    \/ CmExecute
    \/ CmUndo
    \/ CmRedo
    \/ CmClear
    \/ CmBodyReturns
    \/ CmBodyThrows
    \/ CmListenersReturn

SpecCmd == Init /\ [][NextCmd]_vars

\* ------------------------------------------------- ReparentEntityCommand
\* ids a ReparentEntityCommand may be built with: the entities of the
\* hierarchy and one id that is never live
ReparentArgIds == 1..(TreeN + 1)

\* new ReparentEntityCommand(engine, childId, newParentId)
ReparentEntityCommand(childId, newParentId) ==
    [childId |-> childId, newParentId |-> newParentId,
     oldParentId |-> NULL, stateCaptured |-> FALSE]

\* (variant: the old parent is not read, the command keeps null)
GetParentNotRead(s, childId) == NULL

\* transform.getParent() of the child's TransformComponent
GetParent(s, childId) == GetComponent(s, childId, "transform").parent

\* what a command method leaves: the store, the command object's fields and
\* whether the method threw
Returned(r, c) == [em |-> r.em, hung |-> r.hung, cmd |-> c, threw |-> FALSE]
Threw(r, c) == [em |-> r.em, hung |-> r.hung, cmd |-> c, threw |-> TRUE]

\* ReparentEntityCommand.execute()
ReparentExecute(s, c) ==
    IF ~HasEntity(s, c.childId) THEN Threw(Res(s, FALSE, <<>>), c)
    ELSE IF c.newParentId # NULL /\ ~HasEntity(s, c.newParentId)
    THEN Threw(Res(s, FALSE, <<>>), c)
    ELSE IF ~c.stateCaptured /\ ~HasComponent(s, c.childId, "transform")
    THEN Threw(Res(s, FALSE, <<>>), c)
    ELSE Then(IF c.stateCaptured THEN c
              ELSE [c EXCEPT !.oldParentId = GetParent(s, c.childId),
                             !.stateCaptured = TRUE], LAMBDA captured :
         Then(SetParent(s, c.childId, c.newParentId), LAMBDA r :
         IF r.ret = TRUE THEN Returned(r, captured) ELSE Threw(r, captured)))

\* ReparentEntityCommand.undo(): it never throws
ReparentUndo(s, c) ==
    IF ~c.stateCaptured THEN Returned(Res(s, FALSE, <<>>), c)
    ELSE IF ~HasEntity(s, c.childId) THEN Returned(Res(s, FALSE, <<>>), c)
    ELSE Then(IF c.oldParentId # NULL /\ ~HasEntity(s, c.oldParentId)
              THEN [c EXCEPT !.oldParentId = NULL]
              ELSE c, LAMBDA target :
         Returned(SetParent(s, c.childId, target.oldParentId), target))

\* the application has just made the calls execute(command); undo():
\*   stage = "executed"  the last call was an execute that succeeded, on the
\*                       store `before`, and left the command object `cmd`
\*   stage = "undone"    the call after it was undo()
Executed(before, c) == [stage |-> "executed", before |-> before, cmd |-> c]
Undone(sc) == [stage |-> "undone", before |-> sc.before, cmd |-> sc.cmd]

\* a call of the store made by the application between the commands
ReparentStoreCall(op, r) ==
    /\ ~hung
    /\ em' = r.em
    /\ last' = [op |-> op, ret |-> r.ret]
    /\ events' = r.events
    /\ hung' = r.hung
    /\ scenario' = NoScenario
    /\ UNCHANGED <<undoStack, redoStack, isExecuting, frames, cmStep>>
    /\ UNCHANGED <<smVars, envVars>>

ReparentCreateEntity ==
    /\ CreateEntityId(em) <= TreeN
    /\ ReparentStoreCall("createEntity", CreateEntity(em))

ReparentAddTransform ==
    \E entityId \in TreeIds :
        ReparentStoreCall("addComponent",
                          AddComponent(em, entityId, "transform", [parent |-> UNDEF]))

ReparentRemoveEntity ==
    \E entityId \in TreeIds :
        ReparentStoreCall("removeEntity", RemoveEntity(em, entityId))

\* commandManager.execute(new ReparentEntityCommand(engine, childId, newParentId))
CmExecuteReparent ==
    /\ ~hung
    /\ ~isExecuting
    /\ \E childId \in ReparentArgIds, newParentId \in {NULL} \cup ReparentArgIds :
        \E r \in {ReparentExecute(em, ReparentEntityCommand(childId, newParentId))} :
            /\ em' = r.em
            /\ hung' = r.hung
            /\ events' = <<>>
            /\ last' = [op |-> "execute", ret |-> ~r.threw]
            /\ undoStack' = IF r.threw THEN undoStack
                            ELSE PushBounded(undoStack, r.cmd)
            /\ redoStack' = IF r.threw THEN redoStack ELSE <<>>
            /\ scenario' = IF r.threw THEN NoScenario ELSE Executed(em, r.cmd)
            /\ UNCHANGED <<isExecuting, frames, cmStep>>
            /\ UNCHANGED <<smVars, envVars>>

\* commandManager.undo() with a ReparentEntityCommand on top of the undo stack
CmUndoReparent ==
    /\ ~hung
    /\ ~isExecuting
    /\ undoStack # <<>>
    /\ \E r \in {ReparentUndo(em, undoStack[Len(undoStack)])} :
        /\ em' = r.em
        /\ hung' = r.hung
        /\ events' = <<>>
        /\ last' = [op |-> "undo", ret |-> TRUE]
        /\ undoStack' = SubSeq(undoStack, 1, Len(undoStack) - 1)
        /\ redoStack' = Append(redoStack, r.cmd)
        /\ scenario' = IF scenario.stage = "executed" THEN Undone(scenario)
                       ELSE NoScenario
        /\ UNCHANGED <<isExecuting, frames, cmStep>>
        /\ UNCHANGED <<smVars, envVars>>

\* commandManager.redo() with a ReparentEntityCommand on top of the redo stack
CmRedoReparent ==
    /\ ~hung
    /\ ~isExecuting
    /\ redoStack # <<>>
    /\ \E r \in {ReparentExecute(em, redoStack[Len(redoStack)])} :
        /\ em' = r.em
        /\ hung' = r.hung
        /\ events' = <<>>
        /\ last' = [op |-> "redo", ret |-> ~r.threw]
        /\ undoStack' = IF r.threw THEN undoStack ELSE Append(undoStack, r.cmd)
        /\ redoStack' = IF r.threw
                        THEN Append(SubSeq(redoStack, 1, Len(redoStack) - 1), r.cmd)
                        ELSE SubSeq(redoStack, 1, Len(redoStack) - 1)
        /\ scenario' = NoScenario
        /\ UNCHANGED <<isExecuting, frames, cmStep>>
        /\ UNCHANGED <<smVars, envVars>>

NextReparent ==
    \/ ReparentCreateEntity
    \/ ReparentAddTransform
    \/ ReparentRemoveEntity
    \/ CmExecuteReparent
    \/ CmUndoReparent
    \/ CmRedoReparent

SpecReparent == Init /\ [][NextReparent]_vars

\* ------------------------------------------------------------- the Engine
\* what an Engine method leaves: the store, the Engine's fields, its result
EngineRes(s, eng, ret) == [em |-> s, engine |-> eng, ret |-> ret]

\* Engine.selectEntity(id)
SelectEntity(s, eng, id) ==
    IF eng.mode # "editor" THEN eng
    ELSE IF id # NULL /\ ~HasEntity(s, id)
    THEN [eng EXCEPT !.selectedEntityId = NULL]
    ELSE [eng EXCEPT !.selectedEntityId = id]

\* Engine.removeEntity(id)
EngineRemoveEntity(s, eng, id) ==
    IF ~HasEntity(s, id) THEN EngineRes(s, eng, FALSE)
    ELSE Then(RemoveEntity(s, id), LAMBDA r :
         EngineRes(r.em,
                   IF r.ret = TRUE /\ eng.selectedEntityId = id
                   THEN SelectEntity(r.em, eng, NULL)
                   ELSE eng,
                   r.ret))

\* Engine.createEntity(): a new entity with a transform whose parent is null
EngineCreateEntity(s, eng) ==
    Then(CreateEntity(s), LAMBDA c :
    EngineRes(AddComponent(c.em, c.ret, "transform", [parent |-> NULL]).em,
              eng, c.ret))

\* Engine.enterGameMode()
EnterGameMode(s, eng) ==
    IF eng.mode = "game" THEN eng
    ELSE [SelectEntity(s, eng, NULL) EXCEPT !.mode = "game"]

\* Engine.enterEditorMode(): loadEditorState selects the saved entity when it
\* is live, else nothing
EnterEditorMode(s, eng, saved) ==
    IF eng.mode = "editor" THEN eng
    ELSE SelectEntity(s, [eng EXCEPT !.mode = "editor"],
                      IF saved # NULL /\ HasEntity(s, saved) THEN saved ELSE NULL)

\* ------------------------------------------------ commands of the editor
\* what a command method leaves: the store, the Engine's fields, the command
\* object's fields, and whether the method threw
CommandRes(r, c, threw) ==
    [em |-> r.em, engine |-> r.engine, cmd |-> c, threw |-> threw]

\* entityState of a DeleteEntityCommand that has captured nothing (null)
NoEntityState == [id |-> NULL, components |-> EmptyMap]

\* new DeleteEntityCommand(engine, entityId)
DeleteEntityCommand(entityId) ==
    [kind |-> "delete", entityId |-> entityId, entityState |-> NoEntityState,
     previousSelectionId |-> NULL]

\* new CreateEntityCommand(engine, entityType, options)
CreateEntityCommand ==
    [kind |-> "create", createdEntityId |-> NULL]

\* DeleteEntityCommand.execute()
DeleteExecute(s, eng, c) ==
    IF ~HasEntity(s, c.entityId)
    THEN CommandRes(EngineRes(s, IF eng.selectedEntityId = c.entityId
                                 THEN SelectEntity(s, eng, NULL) ELSE eng, FALSE),
                    c, FALSE)
    ELSE Then(IF c.entityState.id = NULL
              THEN [c EXCEPT !.entityState = GetEntityState(s, c.entityId),
                             !.previousSelectionId = eng.selectedEntityId]
              ELSE c, LAMBDA captured :
         Then(EngineRemoveEntity(s, eng, c.entityId), LAMBDA r :
         CommandRes(r, captured, r.ret # TRUE)))

\* em.restoreEntityState(state): the EntityManager has no method of that
\* name, the call throws a TypeError
RestoreEntityStateThrows == TRUE

\* DeleteEntityCommand.undo()
DeleteUndo(s, eng, c) ==
    IF c.entityState.id = NULL THEN CommandRes(EngineRes(s, eng, FALSE), c, FALSE)
    ELSE IF HasEntity(s, c.entityId)
    THEN CommandRes(EngineRes(s, SelectEntity(s, eng, c.entityId), FALSE), c, FALSE)
    ELSE CommandRes(EngineRes(s, eng, FALSE), c, RestoreEntityStateThrows)

\* CreateEntityCommand.execute()
CreateExecute(s, eng, c) ==
    IF c.createdEntityId # NULL /\ HasEntity(s, c.createdEntityId)
    THEN CommandRes(EngineRes(s, SelectEntity(s, eng, c.createdEntityId), TRUE),
                    c, FALSE)
    ELSE Then(EngineCreateEntity(s, eng), LAMBDA r :
         CommandRes(EngineRes(r.em, SelectEntity(r.em, r.engine, r.ret), TRUE),
                    [c EXCEPT !.createdEntityId = r.ret], FALSE))

\* CreateEntityCommand.undo()
CreateUndo(s, eng, c) ==
    IF c.createdEntityId = NULL THEN CommandRes(EngineRes(s, eng, FALSE), c, FALSE)
    ELSE CommandRes(EngineRemoveEntity(s, eng, c.createdEntityId), c, FALSE)

\* command.execute() / command.undo()
CommandExecute(s, eng, c) ==
    IF c.kind = "delete" THEN DeleteExecute(s, eng, c) ELSE CreateExecute(s, eng, c)
CommandUndo(s, eng, c) ==
    IF c.kind = "delete" THEN DeleteUndo(s, eng, c) ELSE CreateUndo(s, eng, c)

\* the latest calls of the application are execute(command); undo(); redo():
\* `before` is the store the execute was called on, `first` the command
\* object as the execute left it
EditorScenario(stage, before, first) ==
    [stage |-> stage, before |-> before, first |-> first]

\* entities of the specification of the editor
EditorN == 2
EditorIds == 1..EditorN
\* ids the application may pass: the entities and one id that is never live
EditorArgIds == 1..(EditorN + 1)

\* a call made by the application on the Engine or on its store
EditorCall(op, r) ==
    /\ ~hung
    /\ em' = r.em
    /\ engine' = r.engine
    /\ last' = [op |-> op, ret |-> r.ret]
    /\ events' = <<>>
    /\ scenario' = NoScenario
    /\ UNCHANGED <<hung, undoStack, redoStack, isExecuting, frames, cmStep>>
    /\ UNCHANGED <<smVars, hub, assetManager>>

EditorCreateEntity ==
    /\ CreateEntityId(em) <= EditorN
    /\ EditorCall("createEntity", EngineCreateEntity(em, engine))

EditorSetParent ==
    \E entityId \in EditorIds, newParentId \in {NULL} \cup EditorIds :
        EditorCall("setParent",
                   Then(SetParent(em, entityId, newParentId), LAMBDA r :
                        EngineRes(r.em, engine, r.ret)))

EditorSelectEntity ==
    \E id \in {NULL} \cup EditorArgIds :
        EditorCall("selectEntity", EngineRes(em, SelectEntity(em, engine, id), "void"))

EditorRemoveEntity ==
    \E id \in EditorArgIds :
        EditorCall("removeEntity", EngineRemoveEntity(em, engine, id))

EditorEnterGameMode ==
    EditorCall("enterGameMode", EngineRes(em, EnterGameMode(em, engine), "void"))

EditorEnterEditorMode ==
    \E saved \in {NULL} \cup EditorArgIds :
        EditorCall("enterEditorMode",
                   EngineRes(em, EnterEditorMode(em, engine, saved), "void"))

\* a command method has run under the CommandManager
EditorCommandStep(op, r, undo, redo, sc) ==
    /\ em' = r.em
    /\ engine' = r.engine
    /\ last' = [op |-> op, ret |-> ~r.threw]
    /\ events' = <<>>
    /\ undoStack' = undo
    /\ redoStack' = redo
    /\ scenario' = sc
    /\ UNCHANGED <<hung, isExecuting, frames, cmStep>>
    /\ UNCHANGED <<smVars, hub, assetManager>>

\* commandManager.execute(new DeleteEntityCommand(engine, id)) and
\* commandManager.execute(new CreateEntityCommand(engine, type))
CmExecuteEditor ==
    /\ ~hung
    /\ ~isExecuting
    /\ \E c \in {CreateEntityCommand} \cup {DeleteEntityCommand(id) : id \in EditorArgIds} :
        /\ c.kind = "create" => CreateEntityId(em) <= EditorN
        /\ \E r \in {CommandExecute(em, engine, c)} :
            EditorCommandStep("execute", r,
                IF r.threw THEN undoStack ELSE PushBounded(undoStack, r.cmd),
                IF r.threw THEN redoStack ELSE <<>>,
                IF r.threw THEN NoScenario ELSE EditorScenario("executed", em, r.cmd))

\* commandManager.undo()
CmUndoEditor ==
    /\ ~hung
    /\ ~isExecuting
    /\ undoStack # <<>>
    /\ \E r \in {CommandUndo(em, engine, undoStack[Len(undoStack)])} :
        EditorCommandStep("undo", r,
            IF r.threw THEN [undoStack EXCEPT ![Len(undoStack)] = r.cmd]
            ELSE SubSeq(undoStack, 1, Len(undoStack) - 1),
            IF r.threw THEN redoStack ELSE Append(redoStack, r.cmd),
            IF scenario.stage = "executed"
            THEN EditorScenario("undone", scenario.before, scenario.first)
            ELSE NoScenario)

\* commandManager.redo()
CmRedoEditor ==
    /\ ~hung
    /\ ~isExecuting
    /\ redoStack # <<>>
    /\ LET c == redoStack[Len(redoStack)]
       IN  /\ c.kind = "create" => CreateEntityId(em) <= EditorN
           /\ \E r \in {CommandExecute(em, engine, c)} :
               EditorCommandStep("redo", r,
                   IF r.threw THEN undoStack ELSE Append(undoStack, r.cmd),
                   IF r.threw THEN [redoStack EXCEPT ![Len(redoStack)] = r.cmd]
                   ELSE SubSeq(redoStack, 1, Len(redoStack) - 1),
                   IF scenario.stage = "undone"
                   THEN EditorScenario("redone", scenario.before, scenario.first)
                   ELSE NoScenario)

NextEditor ==
    \/ EditorCreateEntity
    \/ EditorSetParent
    \/ EditorSelectEntity
    \/ EditorRemoveEntity
    \/ EditorEnterGameMode
    \/ EditorEnterEditorMode
    \/ CmExecuteEditor
    \/ CmUndoEditor
    \/ CmRedoEditor

SpecEditor == Init /\ [][NextEditor]_vars

\* ------------------------------------------------------- EventEmitter
\* callback functions of the application
MaxCallbacks == 2
\* listeners of one event
MaxListeners == 2
\* once() wrappers created
MaxWrappers == 1
\* emits nested on the call stack
MaxEmitDepth == 1
\* calls a listener makes on the hub while it runs
MaxListenerCalls == 1

HubCallbacks == 1..MaxCallbacks
\* a function subscribed to an event: a callback of the application
\* (wrapper = 0) or the n-th onceWrapper, made for the callback cb
Listener(cb, wrapper) == [cb |-> cb, wrapper |-> wrapper]

\* Array.prototype.indexOf, from 1; 0 when absent
IndexOf(seq, x) ==
    IF \E i \in DOMAIN seq : seq[i] = x
    THEN CHOOSE i \in DOMAIN seq : seq[i] = x /\ \A j \in 1..(i - 1) : seq[j] # x
    ELSE 0
\* Array.prototype.splice(index, 1)
SpliceOut(seq, i) == [j \in 1..(Len(seq) - 1) |-> IF j < i THEN seq[j] ELSE seq[j + 1]]

\* on(event, callback)
HubOn(h, event, listener) ==
    [h EXCEPT !.listeners[event] = Append(@, listener)]

\* off(event, callback)
HubOff(h, event, listener) ==
    LET eventListeners == h.listeners[event]
        index == IndexOf(eventListeners, listener)
        wrappers == SelectSeq(h.onceListeners[event], LAMBDA w : w.cb = listener.cb)
    IN  IF index # 0
        THEN [h EXCEPT !.listeners[event] = SpliceOut(eventListeners, index)]
        ELSE IF listener.wrapper = 0 /\ wrappers # <<>>
        THEN [h EXCEPT
                !.listeners[event] =
                    IF IndexOf(eventListeners, wrappers[1]) # 0
                    THEN SpliceOut(eventListeners, IndexOf(eventListeners, wrappers[1]))
                    ELSE eventListeners,
                !.onceListeners[event] = SpliceOut(@, IndexOf(@, wrappers[1]))]
        ELSE h

\* once(event, callback)
HubOnce(h, event, cb) ==
    LET onceWrapper == Listener(cb, h.nextWrapper)
    IN  [HubOn(h, event, onceWrapper) EXCEPT
            !.onceListeners[event] = Append(@, onceWrapper),
            !.nextWrapper = @ + 1]

\* offAll(event)
HubOffAll(h, event) ==
    [h EXCEPT !.listeners[event] = <<>>, !.onceListeners[event] = <<>>]

\* an emit under way: the copy of the listeners array it loops over, the
\* index of the next listener, whether a listener is running, the listeners
\* invoked so far and the calls the running listener has made on the hub
Emission(event, listeners) ==
    [event |-> event, listeners |-> listeners, i |-> 1, running |-> FALSE,
     invoked |-> <<>>, propagated |-> FALSE, calls |-> 0]

HubDepth == Len(hub.emits)
HubTop == hub.emits[Len(hub.emits)]
\* the application, or the listener that is running, is in control and may
\* call the hub
MayCallHub ==
    IF hub.emits = <<>> THEN TRUE
    ELSE HubTop.running /\ HubTop.calls < MaxListenerCalls
\* the hub after the code in control has made one more call
HubCounted ==
    IF hub.emits = <<>> THEN hub
    ELSE [hub EXCEPT !.emits[Len(hub.emits)].calls = @ + 1]

HubStep(h) ==
    /\ hub' = h
    /\ UNCHANGED <<storeVars, cmVars, smVars, engine, assetManager>>

DoHubOn ==
    /\ MayCallHub
    /\ \E event \in HubEvents, cb \in HubCallbacks :
        /\ Len(hub.listeners[event]) < MaxListeners
        /\ HubStep(HubOn(HubCounted, event, Listener(cb, 0)))

DoHubOnce ==
    /\ MayCallHub
    /\ hub.nextWrapper <= MaxWrappers
    /\ \E event \in HubEvents, cb \in HubCallbacks :
        /\ Len(hub.listeners[event]) < MaxListeners
        /\ HubStep(HubOnce(HubCounted, event, cb))

DoHubOff ==
    /\ MayCallHub
    /\ \E event \in HubEvents, cb \in HubCallbacks :
        HubStep(HubOff(HubCounted, event, Listener(cb, 0)))

DoHubOffAll ==
    /\ MayCallHub
    /\ \E event \in HubEvents :
        HubStep(HubOffAll(HubCounted, event))

\* emit(event, data) is called: it returns at once when the event has no
\* listeners, else it copies the array and starts its loop
DoHubEmit ==
    /\ MayCallHub
    /\ HubDepth < MaxEmitDepth
    /\ \E event \in HubEvents :
        IF hub.listeners[event] = <<>>
        THEN HubStep([HubCounted EXCEPT
                        !.done = [NoEmit EXCEPT !.event = event]])
        ELSE HubStep([HubCounted EXCEPT
                        !.emits = Append(@, Emission(event, hub.listeners[event]))])

\* the loop of emit calls the next listener of its copy; a onceWrapper
\* first removes itself with off(event, onceWrapper)
DoHubInvoke ==
    /\ hub.emits # <<>>
    /\ ~HubTop.running
    /\ HubTop.i <= Len(HubTop.listeners)
    /\ LET listener == HubTop.listeners[HubTop.i]
           called == [hub EXCEPT !.emits[Len(hub.emits)].running = TRUE,
                                 !.emits[Len(hub.emits)].invoked = Append(@, listener)]
       IN  HubStep(IF listener.wrapper # 0
                   THEN HubOff(called, HubTop.event, listener)
                   ELSE called)

\* the emission after its running listener has returned
ListenerReturned(emission) ==
    [emission EXCEPT !.i = @ + 1, !.running = FALSE, !.calls = 0]

\* (variant: the exception of a listener ends the loop and leaves emit)
ListenerThrewUncaught(emission) ==
    [emission EXCEPT !.i = Len(emission.listeners) + 1, !.running = FALSE,
                     !.calls = 0, !.propagated = TRUE]

\* the emission after its running listener has thrown: the catch block
\* logs the error and the loop goes on
ListenerThrew(emission) ==
    [emission EXCEPT !.i = @ + 1, !.running = FALSE, !.calls = 0]

DoHubListenerReturns ==
    /\ hub.emits # <<>>
    /\ HubTop.running
    /\ HubStep([hub EXCEPT !.emits[Len(hub.emits)] = ListenerReturned(@)])

DoHubListenerThrows ==
    /\ hub.emits # <<>>
    /\ HubTop.running
    /\ HubStep([hub EXCEPT !.emits[Len(hub.emits)] = ListenerThrew(@)])

\* the loop is over: emit returns to its caller
DoHubEmitReturns ==
    /\ hub.emits # <<>>
    /\ ~HubTop.running
    /\ HubTop.i > Len(HubTop.listeners)
    /\ HubStep([hub EXCEPT
                  !.emits = SubSeq(@, 1, Len(@) - 1),
                  !.done = [event |-> HubTop.event, listeners |-> HubTop.listeners,
                            invoked |-> HubTop.invoked,
                            propagated |-> HubTop.propagated]])

NextHub ==
    \/ DoHubOn
    \/ DoHubOnce
    \/ DoHubOff
    \/ DoHubOffAll
    \/ DoHubEmit
    \/ DoHubInvoke
    \/ DoHubListenerReturns
    \/ DoHubListenerThrows
    \/ DoHubEmitReturns

SpecHub == Init /\ [][NextHub]_vars

\* ----------------------------------------------------------- AssetManager
\* relativePath.trim().replace(/^\/+|\/+$/g, '')
RECURSIVE CleanedPath(_)
CleanedPath(path) ==
    IF path = <<>> THEN path
    ELSE IF Head(path) = Slash THEN CleanedPath(Tail(path))
    ELSE IF path[Len(path)] = Slash THEN CleanedPath(SubSeq(path, 1, Len(path) - 1))
    ELSE path

\* the switch on the extension: the extensions that have a loader
HasLoader(key) == key[Len(key)].ext \in {"png", "json", "glb", "mp3"}

\* the promise of a load: an unsupported extension gives Promise.reject(...),
\* a rejected promise for which no loader was asked
LoadPromise(key) ==
    [path |-> key, loader |-> HasLoader(key),
     state |-> IF HasLoader(key) THEN "inflight" ELSE "failed",
     reacted |-> "none"]

\* promises of path key whose loader has not answered yet
InFlight(am, key) ==
    {id \in DOMAIN am.requests :
        /\ am.requests[id].path = key
        /\ am.requests[id].loader
        /\ am.requests[id].state = "inflight"}
\* promises of path key whose loader has delivered the asset
Loaded(am, key) ==
    {id \in DOMAIN am.requests :
        am.requests[id].path = key /\ am.requests[id].state = "loaded"}

\* what a call of load did and what it returned; inFlight and loaded are the
\* promises of the path as the call found them
LoadCall(am, key, kind, promise, asset) ==
    [path |-> key, kind |-> kind, promise |-> promise, asset |-> asset,
     inFlight |-> InFlight(am, key), loaded |-> Loaded(am, key)]

\* this.loadingPromises.has(cleanedRelativePath)
(* variant: a load in progress is not looked up *)
IsLoadingUnchecked(am, key) == FALSE
IsLoading(am, key) == am.loadingPromises[key] # NULL

\* load(relativePath)
Load(am, path) ==
    Then(CleanedPath(path), LAMBDA key :
        IF key = <<>>
        THEN [am EXCEPT !.calls = Append(@, LoadCall(am, key, "rejected", NULL, NULL))]
        ELSE IF am.assets[key] # NULL
        THEN [am EXCEPT !.calls = Append(@, LoadCall(am, key, "cached", NULL,
                                                     am.assets[key]))]
        ELSE IF IsLoading(am, key)
        THEN [am EXCEPT !.calls = Append(@, LoadCall(am, key, "pending",
                                                     am.loadingPromises[key], NULL))]
        ELSE [am EXCEPT !.requests = Append(@, LoadPromise(key)),
                        !.loadingPromises[key] = Len(am.requests) + 1,
                        !.calls = Append(@, LoadCall(am, key, "started",
                                                     Len(am.requests) + 1, NULL))])

AmStep(am) ==
    /\ assetManager' = am
    /\ UNCHANGED <<storeVars, cmVars, smVars, engine, hub>>

DoLoad ==
    /\ Len(assetManager.calls) < MaxLoads
    /\ \E path \in RawPaths :
        \E am \in {Load(assetManager, path)} :
            /\ Len(am.requests) <= MaxRequests
            /\ AmStep(am)

\* the loader calls onLoad: resolve(asset)
DoLoaderSucceeds ==
    \E id \in DOMAIN assetManager.requests :
        /\ assetManager.requests[id].state = "inflight"
        /\ AmStep([assetManager EXCEPT !.requests[id].state = "loaded"])

\* the loader calls onError: reject(formatError(...))
DoLoaderFails ==
    \E id \in DOMAIN assetManager.requests :
        /\ assetManager.requests[id].state = "inflight"
        /\ AmStep([assetManager EXCEPT !.requests[id].state = "failed"])

\* loadPromise.then(assetData => { this.assets.set(...) })
DoThen ==
    \E id \in DOMAIN assetManager.requests :
        /\ assetManager.requests[id].state = "loaded"
        /\ assetManager.requests[id].reacted = "none"
        /\ AmStep([assetManager EXCEPT
                      !.assets[assetManager.requests[id].path] = id,
                      !.requests[id].reacted = "then"])

\* .catch(error => { emit('assetLoadError') })
DoCatch ==
    \E id \in DOMAIN assetManager.requests :
        /\ assetManager.requests[id].state = "failed"
        /\ assetManager.requests[id].reacted = "none"
        /\ AmStep([assetManager EXCEPT !.requests[id].reacted = "catch"])

\* this.loadingPromises.delete(cleanedRelativePath)
(* variant: the entry is left in the map *)
DeleteLoadingKept(loading, key) == loading
DeleteLoading(loading, key) == [loading EXCEPT ![key] = NULL]

\* .finally(() => { this.loadingPromises.delete(...) })
DoFinally ==
    \E id \in DOMAIN assetManager.requests :
        /\ assetManager.requests[id].reacted \in {"then", "catch"}
        /\ AmStep([assetManager EXCEPT
                      !.loadingPromises = DeleteLoading(@, assetManager.requests[id].path),
                      !.requests[id].reacted = "finally"])

NextAssets ==
    \/ DoLoad
    \/ DoLoaderSucceeds
    \/ DoLoaderFails
    \/ DoThen
    \/ DoCatch
    \/ DoFinally

SpecAssets == Init /\ [][NextAssets]_vars

\* ---------------------------------------------------------- SystemManager
\* register calls made in one behaviour: each hands over a new system object
MaxSystems == 3
\* priorities are 0..MaxPriority
MaxPriority == 1

SysNames == {"a", "b"}
Priorities == 0..MaxPriority
Phases == <<"preUpdate", "update", "postUpdate">>
\* no callback throws
NoFailure == <<>>
\* the callback that throws in a tick, if it is reached: <<name, phase>>
Failures == {NoFailure} \cup {<<n, Phases[i]>> : n \in SysNames, i \in DOMAIN Phases}

\* the manager's three collections as one value
Sm == [systems |-> systems, systemStates |-> systemStates,
       executionOrder |-> executionOrder]

\* systemStates.has(name) / systemStates.get(name)
HasState(states, name) == \E i \in DOMAIN states : states[i].name = name
GetState(states, name) == states[CHOOSE i \in DOMAIN states : states[i].name = name]
\* systemStates.set(name, st): a new key goes last, an old one keeps its place
SetState(states, name, st) ==
    IF HasState(states, name)
    THEN [i \in DOMAIN states |-> IF states[i].name = name THEN st ELSE states[i]]
    ELSE Append(states, st)
\* systemStates.delete(name)
DeleteState(states, name) == SelectSeq(states, LAMBDA st : st.name # name)
\* an assignment to a field of the state object of `name`
WithInitialized(states, name) ==
    [i \in DOMAIN states |->
        IF states[i].name = name THEN [states[i] EXCEPT !.isInitialized = TRUE]
        ELSE states[i]]
WithPriority(states, name, priority) ==
    [i \in DOMAIN states |->
        IF states[i].name = name THEN [states[i] EXCEPT !.priority = priority]
        ELSE states[i]]
WithActive(states, name, isActive) ==
    [i \in DOMAIN states |->
        IF states[i].name = name THEN [states[i] EXCEPT !.isActive = isActive]
        ELSE states[i]]

\* the names of the entries of `states` that have priority p, in their order
RECURSIVE NamesOf(_)
NamesOf(states) ==
    IF states = <<>> THEN <<>>
    ELSE << Head(states).name >> \o NamesOf(Tail(states))
RECURSIVE SortedFrom(_, _)
SortedFrom(states, p) ==
    IF p > MaxPriority THEN <<>>
    ELSE NamesOf(SelectSeq(states, LAMBDA st : st.priority = p))
           \o SortedFrom(states, p + 1)

\* _sortSystems: the names of systemStates.entries() in a stable sort by
\* ascending priority
(* variant: the entries are not sorted *)
_sortSystemsUnsorted(states) == NamesOf(states)
_sortSystems(states) == SortedFrom(states, 0)

\* unregister(name) on the manager m
Unregister(m, name) ==
    IF name \notin DOMAIN m.systems THEN m
    ELSE [systems |-> MapDelete(m.systems, name),
          systemStates |-> DeleteState(m.systemStates, name),
          executionOrder |-> _sortSystems(DeleteState(m.systemStates, name))]

\* the step a SystemManager action records
SmStep(op, name, system) ==
    [op |-> op, name |-> name, system |-> system, fail |-> <<>>, trace |-> <<>>,
     thrown |-> <<>>]

\* register(name, system) up to `await system.initialize(...)`.  priority and
\* active are the system object's fields (UNDEF: not a finite number).
SmRegister ==
    \E name \in SysNames, priority \in Priorities \cup {UNDEF}, active \in BOOLEAN :
        /\ nextSystem <= MaxSystems
        /\ LET m == IF name \in DOMAIN systems THEN Unregister(Sm, name) ELSE Sm
           IN /\ systems' = MapSet(m.systems, name, nextSystem)
              /\ systemStates' =
                    SetState(m.systemStates, name,
                           [name |-> name, isInitialized |-> FALSE,
                            priority |-> IF IsNumber(priority) THEN priority ELSE 0,
                            isActive |-> active])
              /\ executionOrder' = m.executionOrder
        /\ pendingInits' = pendingInits \cup {[name |-> name, system |-> nextSystem]}
        /\ nextSystem' = nextSystem + 1
        /\ smStep' = SmStep("register", name, nextSystem)
        /\ UNCHANGED initialized
        /\ UNCHANGED <<storeVars, cmVars, envVars>>

\* system.initialize(...) has returned normally: the rest of the try block
SmInitializeResolves ==
    \E call \in pendingInits :
        /\ pendingInits' = pendingInits \ {call}
        /\ initialized' = initialized \cup {call.system}
        /\ systemStates' = IF HasState(systemStates, call.name)
                           THEN WithInitialized(systemStates, call.name)
                           ELSE systemStates
        /\ executionOrder' = _sortSystems(systemStates')
        /\ smStep' = SmStep("registerResolved", call.name, call.system)
        /\ UNCHANGED <<systems, nextSystem>>
        /\ UNCHANGED <<storeVars, cmVars, envVars>>

\* system.initialize(...) has thrown: the catch block; register rejects
SmInitializeRejects ==
    \E call \in pendingInits :
        /\ pendingInits' = pendingInits \ {call}
        /\ systems' = MapDelete(systems, call.name)
        /\ systemStates' = DeleteState(systemStates, call.name)
        /\ smStep' = SmStep("registerRejected", call.name, call.system)
        /\ UNCHANGED <<executionOrder, initialized, nextSystem>>
        /\ UNCHANGED <<storeVars, cmVars, envVars>>

SmUnregister ==
    \E name \in SysNames :
        /\ systems' = Unregister(Sm, name).systems
        /\ systemStates' = Unregister(Sm, name).systemStates
        /\ executionOrder' = Unregister(Sm, name).executionOrder
        /\ smStep' = SmStep("unregister", name, 0)
        /\ UNCHANGED <<pendingInits, initialized, nextSystem>>
        /\ UNCHANGED <<storeVars, cmVars, envVars>>

\* cleanupAll: every name unregistered, then both maps and the order cleared
SmCleanupAll ==
    /\ systems' = EmptyMap
    /\ systemStates' = <<>>
    /\ executionOrder' = <<>>
    /\ smStep' = SmStep("cleanupAll", "", 0)
    /\ UNCHANGED <<pendingInits, initialized, nextSystem>>
    /\ UNCHANGED <<storeVars, cmVars, envVars>>

\* setPriority(name, priority); UNDEF is a value that is no finite number
SmSetPriority ==
    \E name \in SysNames, priority \in Priorities \cup {UNDEF} :
        /\ IF /\ HasState(systemStates, name)
              /\ IsNumber(priority)
              /\ GetState(systemStates, name).priority # priority
           THEN /\ systemStates' = WithPriority(systemStates, name, priority)
                /\ executionOrder' = _sortSystems(systemStates')
           ELSE UNCHANGED <<systemStates, executionOrder>>
        /\ smStep' = SmStep("setPriority", name, 0)
        /\ UNCHANGED <<systems, pendingInits, initialized, nextSystem>>
        /\ UNCHANGED <<storeVars, cmVars, envVars>>

\* setSystemActive(name, isActive) with a boolean
SmSetSystemActive ==
    \E name \in SysNames, isActive \in BOOLEAN :
        /\ systemStates' =
              IF /\ HasState(systemStates, name)
                 /\ GetState(systemStates, name).isInitialized
              THEN WithActive(systemStates, name, isActive)
              ELSE systemStates
        /\ smStep' = SmStep("setSystemActive", name, 0)
        /\ UNCHANGED <<systems, executionOrder, pendingInits, initialized, nextSystem>>
        /\ UNCHANGED <<storeVars, cmVars, envVars>>

\* the loop of update skips a name unless this holds
Runnable(name) ==
    /\ name \in DOMAIN systems
    /\ HasState(systemStates, name)
    /\ GetState(systemStates, name).isInitialized
    /\ GetState(systemStates, name).isActive

Callback(name, phase) == [name |-> name, system |-> systems[name], phase |-> phase]

\* the try block for one system: preUpdate, update, postUpdate, up to and
\* including the callback that throws
RECURSIVE Invoke(_, _, _)
Invoke(name, fail, i) ==
    IF i > Len(Phases) THEN [trace |-> <<>>, thrown |-> <<>>]
    ELSE IF fail = <<name, Phases[i]>>
    THEN [trace |-> << Callback(name, Phases[i]) >>, thrown |-> fail]
    ELSE LET rest == Invoke(name, fail, i + 1)
         IN [trace |-> << Callback(name, Phases[i]) >> \o rest.trace,
             thrown |-> rest.thrown]

\* the catch block: `throw error` ends the loop, whatever is left of the order
(* variant: the error is logged and the loop goes on *)
CaughtSwallowed(ran, rest) ==
    [trace |-> ran.trace \o rest.trace, thrown |-> rest.thrown]
Caught(ran, rest) == ran

\* for (const name of this.executionOrder) { ... }
RECURSIVE RunSystems(_, _)
RunSystems(order, fail) ==
    IF order = <<>> THEN [trace |-> <<>>, thrown |-> <<>>]
    ELSE IF ~Runnable(Head(order)) THEN RunSystems(Tail(order), fail)
    ELSE Then(Invoke(Head(order), fail, 1), LAMBDA ran :
            IF ran.thrown # <<>> THEN Caught(ran, RunSystems(Tail(order), fail))
            ELSE Then(RunSystems(Tail(order), fail), LAMBDA rest :
                    [trace |-> ran.trace \o rest.trace, thrown |-> rest.thrown]))

\* update(time): an invalid time object stops the engine and runs nothing
SmUpdate ==
    \E validTime \in BOOLEAN, fail \in Failures :
        /\ smStep' =
              IF validTime
              THEN Then(RunSystems(executionOrder, fail), LAMBDA out :
                      [op |-> "update", name |-> "", system |-> 0, fail |-> fail,
                       trace |-> out.trace, thrown |-> out.thrown])
              ELSE SmStep("updateAborted", "", 0)
        /\ UNCHANGED <<systems, systemStates, executionOrder, pendingInits,
                       initialized, nextSystem>>
        /\ UNCHANGED <<storeVars, cmVars, envVars>>

NextSm ==
    \/ SmRegister
    \/ SmInitializeResolves
    \/ SmInitializeRejects
    \/ SmUnregister
    \/ SmCleanupAll
    \/ SmSetPriority
    \/ SmSetSystemActive
    \/ SmUpdate

SpecSm == Init /\ [][NextSm]_vars

\* ------------------------------------------------------------ Engine._loop
\* the name Engine._loop looks the physics system up by: getSystem('physics')
PhysicsName == "a"
\* accumulator / fixedTimeStepScaled: the fixed steps of one frame are at most
\* 0..MaxPhysicsSteps
MaxPhysicsSteps == 1

\* isSystemActive(name)
IsSystemActive(name) ==
    IF HasState(systemStates, name) THEN GetState(systemStates, name).isActive
    ELSE FALSE

\* one iteration of the loop of a running engine.  steps is the number of
\* rounds of the fixed-timestep while loop, objectActive the `active` property
\* of the physics system object when the variable-rate pass starts.  The pass
\* writes `physicsSystem.active`; systemManager.update reads `state.isActive`
\* of systemStates, which the pass does not write.
EngineLoop ==
    \E steps \in 0..MaxPhysicsSteps, fail \in Failures, objectActive \in BOOLEAN :
        /\ smStep' =
              IF /\ PhysicsName \in DOMAIN systems
                 /\ IsSystemActive(PhysicsName)
                 /\ steps > 0
                 /\ fail = <<PhysicsName, "update">>
              THEN \* catch (physicsError) { this.stop(); return; }
                   [op |-> "loopStopped", name |-> PhysicsName,
                    system |-> systems[PhysicsName], fail |-> fail,
                    trace |-> <<>>, thrown |-> <<>>]
              ELSE Then(RunSystems(executionOrder, fail), LAMBDA out :
                      [op |-> "loop", name |-> "", system |-> 0, fail |-> fail,
                       trace |-> out.trace, thrown |-> out.thrown,
                       physicsSteps |->
                           IF PhysicsName \in DOMAIN systems /\ IsSystemActive(PhysicsName)
                           THEN steps ELSE 0,
                       activeBefore |-> objectActive,
                       activeDuring |->
                           IF PhysicsName \in DOMAIN systems THEN FALSE ELSE objectActive,
                       activeAfter |->
                           IF PhysicsName \in DOMAIN systems /\ out.thrown # <<>>
                           THEN FALSE ELSE objectActive])
        /\ UNCHANGED <<systems, systemStates, executionOrder, pendingInits,
                       initialized, nextSystem>>
        /\ UNCHANGED <<storeVars, cmVars, envVars>>

NextLoop ==
    \/ SmRegister
    \/ SmInitializeResolves
    \/ SmInitializeRejects
    \/ SmUnregister
    \/ SmCleanupAll
    \/ SmSetPriority
    \/ SmSetSystemActive
    \/ EngineLoop

SpecLoop == Init /\ [][NextLoop]_vars

\* ------------------------------------------------ properties of the store
Live(s) == Range(s.entities)
WithTransform(s) == {e \in Live(s) : HasComponent(s, e, "transform")}
ParentOf(s, e) == GetComponent(s, e, "transform").parent

\* the parent chain that starts at x never comes back to an entity it passed
RECURSIVE ChainEnds(_, _, _)
ChainEnds(s, x, visited) ==
    IF x = NULL \/ ~HasComponent(s, x, "transform") THEN TRUE
    ELSE IF x \in visited THEN FALSE
    ELSE ChainEnds(s, ParentOf(s, x), visited \cup {x})

ParentAcyclic(s) == \A e \in WithTransform(s) : ChainEnds(s, e, {})

\* a is the parent, or the parent's parent, ... of x (on a chain that ends)
RECURSIVE IsAncestor(_, _, _, _)
IsAncestor(s, a, x, visited) ==
    IF x = NULL \/ ~HasComponent(s, x, "transform") \/ x \in visited THEN FALSE
    ELSE \/ ParentOf(s, x) = a
         \/ IsAncestor(s, a, ParentOf(s, x), visited \cup {x})

\* parent field and children set of every transform
Links(s) ==
    [e \in WithTransform(s) |->
        [parent |-> ParentOf(s, e), children |-> GetChildren(s, e)]]

\* C1: for every component type T the secondary index holds exactly the live
\* entities that have a component of type T, whatever calls (failing ones
\* included) led to the state.
C1_IndexConsistent ==
    \A t \in Types :
        /\ Range(GetEntitiesWithComponent(em, t))
              = {e \in Live(em) : HasComponent(em, e, t)}
        /\ Len(GetEntitiesWithComponent(em, t))
              = Cardinality(Range(GetEntitiesWithComponent(em, t)))

\* a removal has acted and both indexes still list an entity
C1_Witness ==
    /\ last.op \in {"removeEntity", "removeComponent"}
    /\ last.ret = TRUE
    /\ GetEntitiesWithComponent(em, "transform") # <<>>
    /\ GetEntitiesWithComponent(em, "tag") # <<>>

\* C2: every transform with a non-null parent P has P live, P with a
\* transform, and is a member of P's children; every member of a children set
\* is a live entity whose parent field is the owner of the set.
C2_HierarchyLinksConsistent ==
    /\ \A e \in WithTransform(em) :
          ParentOf(em, e) # NULL =>
              /\ HasEntity(em, ParentOf(em, e))
              /\ HasComponent(em, ParentOf(em, e), "transform")
              /\ e \in GetChildren(em, ParentOf(em, e))
    /\ \A owner \in WithTransform(em) : \A c \in GetChildren(em, owner) :
          /\ HasComponent(em, c, "transform")
          /\ ParentOf(em, c) = owner

\* C3: the parent relation over live entities is acyclic after every public
\* call: no parent chain returns to an entity it has already passed.
C3_ParentForestAcyclic == ParentAcyclic(em)

\* C4: from roots only, under setParent calls alone, every state is acyclic,
\* and a setParent whose new parent is the child itself or one of its
\* descendants returns false, changes no parent field or children set and
\* emits no event.
C4_SetParentRejectsCycles ==
    /\ ParentAcyclic(em)
    /\ \A c \in HierIds, p \in HierIds :
          (p = c \/ IsAncestor(em, c, p, {})) =>
              SetParent(em, c, p) = Res(em, FALSE, <<>>)

\* a setParent was rejected (in this specification only self-parenting and
\* cycles are) in a forest that has a chain of three entities
C4_Witness ==
    /\ last.op = "setParent"
    /\ last.ret = FALSE
    /\ events = <<>>
    /\ \E x \in WithTransform(em) :
          /\ ParentOf(em, x) # NULL
          /\ ParentOf(em, ParentOf(em, x)) # NULL

\* C5: addComponent(id, 'transform', {parent: p}) leaves the parent fields and
\* children sets exactly as setParent(id, p) would, both when it constructs the
\* transform (compared with constructing it without a parent and then calling
\* setParent) and when it updates an existing one.
C5_AddComponentParentViaSetParent ==
    \A id \in Ids, p \in ParentArgs :
        HasEntity(em, id) =>
            LET base == IF HasComponent(em, id, "transform") THEN em
                        ELSE AddComponent(em, id, "transform", [parent |-> UNDEF]).em
                viaSetParent == SetParent(base, id, p)
                viaAddComponent == AddComponent(em, id, "transform", [parent |-> p])
            IN (~viaSetParent.hung /\ ~viaAddComponent.hung) =>
                   Links(viaAddComponent.em) = Links(viaSetParent.em)

\* ------------------------------------------- properties of the CommandManager
\* the methods on the call stack that set isExecuting and have not reset it
BusyFrames == {i \in DOMAIN frames : frames[i].busy}
\* the last step was the return of execute(command) with the given outcome
ExecuteReturned(result) ==
    /\ cmStep.kind = "return"
    /\ cmStep.fn = "execute"
    /\ cmStep.result = result

\* C6: at most one command is mid-execution.  isExecuting is true exactly
\* while one execute/undo/redo call is between setting the flag and its finally
\* block (so it is false once the outermost call has returned, also after a
\* throw); no execute, undo or redo call is on the call stack above such a
\* call, from the command body or from a listener (only clear() can be); and a
\* call rejected by the guard has entered no command method and left both
\* stacks as they were.
C6_SingleCommandInFlight ==
    /\ Cardinality(BusyFrames) <= 1
    /\ isExecuting = (BusyFrames # {})
    /\ \A i \in BusyFrames : \A j \in DOMAIN frames : j > i => frames[j].fn = "clear"
    /\ Cardinality({i \in DOMAIN frames : frames[i].at = "body"}) <= 1
    /\ (cmStep.kind = "reject" /\ cmStep.result = "busy") =>
          /\ undoStack = cmStep.undoBefore
          /\ redoStack = cmStep.redoBefore
          /\ Len(frames) = cmStep.depth
          /\ BusyFrames # {}
    /\ (cmStep.kind = "return" /\ cmStep.depth = 0) => ~isExecuting

\* a command body is running and a nested execute/undo/redo was just rejected
C6_Witness ==
    /\ cmStep.kind = "reject"
    /\ cmStep.result = "busy"
    /\ frames # <<>>
    /\ Top.at = "body"
    /\ Top.calls > 0
    /\ undoStack # <<>>

\* C7: the undo stack never holds more than maxStackSize commands, and an
\* execute that pushes onto a full stack evicts the oldest entry: the stack is
\* then the former one without its first entry, followed by the new command.
C7_UndoStackBounded ==
    /\ Len(undoStack) <= MaxStackSize
    /\ (/\ cmStep.kind = "emit"
        /\ cmStep.fn = "execute"
        /\ IsUndoable(cmStep.cmd)) =>
          undoStack = IF Len(cmStep.undoBefore) < MaxStackSize
                      THEN Append(cmStep.undoBefore, cmStep.cmd)
                      ELSE Append(Tail(cmStep.undoBefore), cmStep.cmd)

\* an undoable command was just pushed onto a full undo stack
C7_Witness ==
    /\ cmStep.kind = "emit"
    /\ cmStep.fn = "execute"
    /\ IsUndoable(cmStep.cmd)
    /\ Len(cmStep.undoBefore) = MaxStackSize
    /\ cmStep.undoBefore[1] # cmStep.undoBefore[2]
    /\ Len(undoStack) = MaxStackSize

\* C8 as stated: when command.execute() throws, both stacks are after the call
\* what they were before it.
C8_StacksIdenticalAfterThrow ==
    ExecuteReturned("threw") =>
        /\ undoStack = cmStep.undoBefore
        /\ redoStack = cmStep.redoBefore

\* C8: when command.execute() throws, execute returns normally and has itself
\* pushed or removed nothing: the stacks are what they were before the call
\* when the command body did not call clear(), and both empty when it did.
C8_ThrowingCommandNotPushed ==
    ExecuteReturned("threw") =>
        IF cmStep.changes = 0
        THEN /\ undoStack = cmStep.undoBefore
             /\ redoStack = cmStep.redoBefore
        ELSE /\ undoStack = <<>>
             /\ redoStack = <<>>

\* execute of a throwing command returned with a history to preserve
C8_Witness ==
    /\ ExecuteReturned("threw")
    /\ cmStep.changes = 0
    /\ cmStep.undoBefore # <<>>
    /\ cmStep.redoBefore # <<>>
    /\ ~isExecuting

C10_ChangeEmittedByEveryExecute ==
    (ExecuteReturned("done") \/ ExecuteReturned("threw")) => cmStep.changes >= 1

\* C10: execute emits 'change' itself exactly when command.execute() returned
\* normally; when it threw, execute emits nothing.
C10_ChangeEmittedOnSuccessOnly ==
    /\ ExecuteReturned("done") => (cmStep.own /\ cmStep.changes >= 1)
    /\ ExecuteReturned("threw") => ~cmStep.own

\* execute returned after emitting its one 'change' event
C10_Witness ==
    /\ ExecuteReturned("done")
    /\ cmStep.own
    /\ cmStep.changes = 1

\* the commands on either stack
OnStacks == Range(undoStack) \cup Range(redoStack)
\* all but the last entry of a stack, and its last entry
Front(stack) == SubSeq(stack, 1, Len(stack) - 1)
Last(stack) == stack[Len(stack)]
\* the last step belongs to the given method and is of the given kind
StepOf(fn, kind) == cmStep.fn = fn /\ cmStep.kind = kind

\* C11: redo invalidation.  After the application has called execute(c1) for a
\* command on neither stack, then undo(), then execute(c2) for another
\* command, each returning normally, the redo stack is empty and c1 is on
\* neither stack; a redo() called next returns at once: it enters no command
\* method and both stacks are what they were.
C11_RedoInvalidated ==
    /\ scenario.stage = "executed2" =>
          /\ redoStack = <<>>
          /\ scenario.c1 \notin OnStacks
    /\ scenario.stage = "redo" =>
          /\ StepOf("redo", "reject")
          /\ cmStep.result = "empty"
          /\ frames = <<>>
          /\ undoStack = cmStep.undoBefore
          /\ redoStack = cmStep.redoBefore
          /\ scenario.c1 \notin OnStacks

\* redo() was called after execute(c1); undo(); execute(c2), with c1 undone
\* and c2 pushed
C11_Witness ==
    /\ scenario.stage = "redo"
    /\ IsUndoable(scenario.c1)
    /\ undoStack = << scenario.c2 >>
    /\ cmStep.kind = "reject"

\* C12: undo() returns at once, changing nothing, exactly when the manager is
\* busy or the undo stack is empty.  Otherwise it pops the top command; when
\* command.undo() returns normally undo pushes that command on the redo stack
\* and leaves the undo stack alone, and when command.undo() throws it pushes
\* the command back on the undo stack and leaves the redo stack alone: the
\* command is on one of the stacks either way.  Compared with the stacks on
\* entry (for a command body that did not call clear()): after success the
\* undo stack has lost its top, which is the top of the redo stack; after a
\* throw both stacks are what they were.
C12_UndoContract ==
    /\ StepOf("undo", "reject") =>
          /\ cmStep.result \in {"busy", "empty"}
          /\ cmStep.result = "busy" => isExecuting
          /\ cmStep.result = "empty" => (~isExecuting /\ undoStack = <<>>)
          /\ undoStack = cmStep.undoBefore
          /\ redoStack = cmStep.redoBefore
    /\ StepOf("undo", "enter") =>
          /\ cmStep.undoBefore # <<>>
          /\ cmStep.cmd = Last(cmStep.undoBefore)
          /\ undoStack = Front(cmStep.undoBefore)
          /\ redoStack = cmStep.redoBefore
          /\ Top.at = "body"
    /\ (StepOf("undo", "emit") /\ cmStep.result = "done") =>
          /\ redoStack = Append(cmStep.redoBefore, cmStep.cmd)
          /\ undoStack = cmStep.undoBefore
          /\ cmStep.changes = 1 =>
                /\ undoStack = Front(Top.undoBefore)
                /\ redoStack = Append(Top.redoBefore, Last(Top.undoBefore))
    /\ (StepOf("undo", "emit") /\ cmStep.result = "threw") =>
          /\ undoStack = Append(cmStep.undoBefore, cmStep.cmd)
          /\ redoStack = cmStep.redoBefore
          /\ cmStep.changes = 1 =>
                /\ undoStack = Top.undoBefore
                /\ redoStack = Top.redoBefore
    /\ (StepOf("undo", "emit") /\ cmStep.result \in {"done", "threw"}) =>
          cmStep.cmd \in OnStacks

\* command.undo() threw with commands on both stacks
C12_Witness ==
    /\ StepOf("undo", "emit")
    /\ cmStep.result = "threw"
    /\ cmStep.changes = 1
    /\ undoStack # <<>>
    /\ redoStack # <<>>

\* C13: redo() mirrors undo().  It returns at once, changing nothing, exactly
\* when the manager is busy or the redo stack is empty.  Otherwise it pops the
\* top of the redo stack and calls command.execute(); on a normal return it
\* pushes the command on the undo stack and leaves the redo stack alone, on a
\* throw it pushes the command back on the redo stack and leaves the undo
\* stack alone (compared with the stacks on entry, for a command body that did
\* not call clear(): the undo stack is what it was).
C13_RedoContract ==
    /\ StepOf("redo", "reject") =>
          /\ cmStep.result \in {"busy", "empty"}
          /\ cmStep.result = "busy" => isExecuting
          /\ cmStep.result = "empty" => (~isExecuting /\ redoStack = <<>>)
          /\ undoStack = cmStep.undoBefore
          /\ redoStack = cmStep.redoBefore
    /\ StepOf("redo", "enter") =>
          /\ cmStep.redoBefore # <<>>
          /\ cmStep.cmd = Last(cmStep.redoBefore)
          /\ redoStack = Front(cmStep.redoBefore)
          /\ undoStack = cmStep.undoBefore
          /\ Top.at = "body"
    /\ (StepOf("redo", "emit") /\ cmStep.result = "done") =>
          /\ undoStack = Append(cmStep.undoBefore, cmStep.cmd)
          /\ redoStack = cmStep.redoBefore
          /\ cmStep.changes = 1 =>
                /\ redoStack = Front(Top.redoBefore)
                /\ undoStack = Append(Top.undoBefore, Last(Top.redoBefore))
    /\ (StepOf("redo", "emit") /\ cmStep.result = "threw") =>
          /\ redoStack = Append(cmStep.redoBefore, cmStep.cmd)
          /\ undoStack = cmStep.undoBefore
          /\ cmStep.changes = 1 =>
                /\ undoStack = Top.undoBefore
                /\ redoStack = Top.redoBefore

\* the replayed command.execute() threw with commands on both stacks
C13_Witness ==
    /\ StepOf("redo", "emit")
    /\ cmStep.result = "threw"
    /\ cmStep.changes = 1
    /\ redoStack # <<>>
    /\ undoStack # <<>>
    /\ frames # <<>>

\* ------------------------------------------------ properties of createEntity
\* C14: createEntity returns an id that is not live before the call and leaves
\* the entities that are live as they are, so that no two live entities share
\* an id: the set of live entities lists every id once, and a createEntity
\* that has just returned has added exactly its id.
C14_CreateEntityIdFresh ==
    /\ ~HasEntity(em, CreateEntityId(em))
    /\ CreateEntityId(em) >= 1
    /\ LET r == CreateEntity(em)
       IN /\ Len(r.em.entities) = Len(em.entities) + 1
          /\ Live(r.em) = Live(em) \cup {r.ret}
          /\ \A e \in Live(em) : r.em.entityComponents[e] = em.entityComponents[e]
    /\ Cardinality(Live(em)) = Len(em.entities)
    /\ Live(em) = DOMAIN em.entityComponents
    /\ last.op = "createEntity" => HasEntity(em, last.ret)

\* createEntity returned an id above a live one that the counter had not
\* passed: the counter pointed at a live entity
C14_Witness ==
    /\ last.op = "createEntity"
    /\ \E e \in Live(em) : e > last.ret
    /\ Cardinality(Live(em)) >= 2

\* C15 as stated: createEntity returns the lowest id that is free, starting at
\* 1: every id below the one it returned is live.
C15_LowestFreeId ==
    last.op = "createEntity" => \A j \in 1..(last.ret - 1) : HasEntity(em, j)

\* C15: under createEntity and removeEntity calls only, createEntity returns
\* the value of the counter nextEntityId, which is above every id allocated so
\* far and never decreases: an id that was removed is never returned again,
\* whether lower ids are free or not, and the ids returned are 1, 2, 3, ...
\* in this order.
C15_CounterAllocation ==
    /\ [](/\ CreateEntityId(em) = em.nextEntityId
          /\ \A e \in Live(em) : e < em.nextEntityId
          /\ last.op = "createEntity" => last.ret = em.nextEntityId - 1)
    /\ [][em'.nextEntityId >= em.nextEntityId]_vars

\* createEntity returned a new id although lower ids were free after removals
C15_Witness ==
    /\ last.op = "createEntity"
    /\ last.ret = 4
    /\ ~HasEntity(em, 1)
    /\ ~HasEntity(em, 3)
    /\ HasEntity(em, 2)

\* ------------------------------------------------ properties of the ticks
PhaseIndex(phase) == CHOOSE i \in DOMAIN Phases : Phases[i] = phase
PriorityOf(name) == GetState(systemStates, name).priority
Ticked == smStep.op = "update"

\* C16: within one update call the callbacks run system by system, the
\* systems in ascending order of their current priority and, among systems
\* of equal priority, in the order of their register calls (a system object
\* registered later has the greater number); each system's callbacks run in
\* the order preUpdate, update, postUpdate.
C16_PriorityThenRegistrationOrder ==
    Ticked =>
        \A i, j \in DOMAIN smStep.trace :
            i < j =>
                LET x == smStep.trace[i]
                    y == smStep.trace[j]
                IN IF x.name = y.name
                   THEN PhaseIndex(x.phase) < PhaseIndex(y.phase)
                   ELSE \/ PriorityOf(x.name) < PriorityOf(y.name)
                        \/ /\ PriorityOf(x.name) = PriorityOf(y.name)
                           /\ x.system < y.system

\* a tick that ran a system registered later before one registered earlier,
\* and no registration was pending
C16_Witness ==
    /\ Ticked
    /\ pendingInits = {}
    /\ \E i, j \in DOMAIN smStep.trace :
          /\ i < j
          /\ smStep.trace[i].system > smStep.trace[j].system
          /\ PriorityOf(smStep.trace[i].name) < PriorityOf(smStep.trace[j].name)

\* C17: update invokes preUpdate, update or postUpdate only on a system
\* object whose own initialize has completed successfully and whose state is
\* active, whatever register calls are pending (a second register under the
\* same name included) and whatever unregister, setSystemActive and update
\* calls were made.
C17_RunsOnlyInitializedActive ==
    Ticked =>
        \A i \in DOMAIN smStep.trace :
            /\ smStep.trace[i].system \in initialized
            /\ GetState(systemStates, smStep.trace[i].name).isActive

\* the callback at position i of the tick is the one that throws
Throws(i) ==
    smStep.fail = <<smStep.trace[i].name, smStep.trace[i].phase>>

\* C18: fail-fast tick: when a callback throws during update, its error is
\* thrown to the caller of update and the throwing callback is the last one
\* invoked in that tick; a tick throws only what a callback it invoked threw.
C18_FailFastTick ==
    Ticked =>
        /\ \A i \in DOMAIN smStep.trace :
              Throws(i) => /\ smStep.thrown = smStep.fail
                           /\ i = Len(smStep.trace)
        /\ smStep.thrown # <<>> =>
              /\ smStep.trace # <<>>
              /\ Throws(Len(smStep.trace))

\* a tick in which preUpdate of the first of two runnable systems threw
C18_Witness ==
    /\ Ticked
    /\ smStep.thrown # <<>>
    /\ Len(smStep.trace) = 1
    /\ smStep.trace[1].phase = "preUpdate"
    /\ \E n \in Range(executionOrder) : n # smStep.trace[1].name /\ Runnable(n)

\* C19: registration is all-or-nothing: when the initialize of a register
\* call has failed and the call has rejected, the name is absent from the
\* systems map, from the system-state map and from the cached execution
\* order, whatever register, unregister or setPriority calls ran while the
\* initialize was pending.
C19_RejectedLeavesNoTrace ==
    smStep.op = "registerRejected" =>
        /\ smStep.name \notin DOMAIN systems
        /\ ~HasState(systemStates, smStep.name)
        /\ smStep.name \notin Range(executionOrder)

\* the system object registered under `name` has completed its initialize
\* and the state under that name says so
InitializedUnder(name) ==
    /\ name \in DOMAIN systems
    /\ systems[name] \in initialized
    /\ HasState(systemStates, name)
    /\ GetState(systemStates, name).isInitialized

\* the call just made asks for `name` to be unregistered: unregister(name),
\* cleanupAll, or a register(name, ...) that overwrites
UnregisterCalled(step, name) ==
    \/ step.op = "cleanupAll"
    \/ step.op \in {"unregister", "register"} /\ step.name = name

\* C20: a system that is Initialized under a name stays registered and
\* initialized under that name until unregister is called for the name
\* (by unregister, cleanupAll or an overwriting register): no update,
\* setPriority or setSystemActive call and no completion or failure of the
\* initialize of another register call removes it or its state.
C20_InitializedUntilUnregister ==
    [][\A name \in SysNames :
          (InitializedUnder(name) /\ ~UnregisterCalled(smStep', name)) =>
              /\ name \in DOMAIN systems'
              /\ systems'[name] = systems[name]
              /\ HasState(systemStates', name)
              /\ GetState(systemStates', name).isInitialized]_vars

\* ------------------------------------------ properties of the store calls
\* C21: a store mutation that fails validation has no effect: addComponent on
\* an entity that does not exist or with a type that is not registered returns
\* null, removeComponent on an entity that does not exist or of a component
\* the entity does not have returns false, removeEntity of an entity that does
\* not exist returns false; each returns normally, emits no event and leaves
\* the live set, the component maps, the index and the links as they were.
C21_FailedCallsHaveNoEffect ==
    \A entityId \in ArgIds, componentType \in Types :
        /\ (~HasEntity(em, entityId) \/ componentType \notin RegisteredTypes) =>
              \A parent \in {UNDEF} \cup ParentArgs :
                  AddComponent(em, entityId, componentType, [parent |-> parent])
                      = Res(em, "null", <<>>)
        /\ (~HasEntity(em, entityId) \/ ~HasComponent(em, entityId, componentType)) =>
              RemoveComponent(em, entityId, componentType) = Res(em, FALSE, <<>>)
        /\ ~HasEntity(em, entityId) =>
              RemoveEntity(em, entityId) = Res(em, FALSE, <<>>)

\* a removeComponent has failed on a store that has two entities, a link
\* between them and both indexes in use
C21_Witness ==
    /\ last.op = "removeComponent"
    /\ last.ret = FALSE
    /\ events = <<>>
    /\ Len(em.entities) = 2
    /\ \E e \in WithTransform(em) : ParentOf(em, e) # NULL
    /\ GetEntitiesWithComponent(em, "tag") # <<>>

\* the entities that removeEntity(id) reaches from id through children sets
RECURSIVE SubtreeFrom(_, _, _)
SubtreeFrom(s, frontier, seen) ==
    IF frontier \subseteq seen THEN seen
    ELSE SubtreeFrom(s,
                     UNION {GetChildren(s, x) \cap Live(s) : x \in frontier \ seen},
                     seen \cup frontier)
Subtree(s, id) == SubtreeFrom(s, {id}, {})

\* the ids of the entityRemoved events of a call, in the order of emission
RemovedIds(evs) ==
    LET removed == SelectSeq(evs, LAMBDA ev : ev.name = "entityRemoved")
    IN [i \in DOMAIN removed |-> removed[i].id]

C23_RemoveTransformDetaches ==
    \A id \in WithTransform(em) :
        LET r == RemoveComponent(em, id, "transform")
            n == Len(r.events)
        IN /\ r.ret = TRUE
           /\ \A c \in GetChildren(em, id) :
                 /\ HasComponent(r.em, c, "transform")
                 /\ ParentOf(r.em, c) = NULL
           /\ \A p \in WithTransform(r.em) : id \notin GetChildren(r.em, p)
           /\ \A e \in WithTransform(r.em) : ParentOf(r.em, e) # id
           /\ n >= 2
           /\ r.events[n - 1] = Event("componentRemoved", id)
           /\ r.events[n] = Event("entityUpdated", id)

\* ------------------------------------------------ properties of the scenes
\* C24: scene round trip: on a store built through the public calls,
\* deserialize(serialize()) returns true and gives a store with the same live
\* ids, the same component types on every entity and the same parent for
\* every transform, the children sets being the inverse of the parents.
C24_SceneRoundTrip ==
    last.op = "roundTrip" =>
        /\ last.ret = TRUE
        /\ Live(em) = Live(last.before)
        /\ \A e \in Live(em) :
              DOMAIN em.entityComponents[e] = DOMAIN last.before.entityComponents[e]
        /\ \A e \in WithTransform(em) :
              /\ ParentOf(em, e) = ParentOf(last.before, e)
              /\ GetChildren(em, e) = {c \in WithTransform(em) : ParentOf(em, c) = e}

Imported == last.op = "deserialize"

\* the record that an entity's components were restored from: the last one
\* of the document with that id
LastRecord(doc, id) ==
    doc[CHOOSE i \in DOMAIN doc :
            /\ doc[i].id = id
            /\ \A j \in DOMAIN doc : doc[j].id = id => j <= i]

\* C25: deserialize leaves no half-constructed entity: when it has returned
\* (true or false), every live entity has every component that its record of
\* the document lists; an entity with a listed component that could not be
\* restored is not live.
C25_NoHalfConstructedEntity ==
    Imported =>
        \A e \in Live(em) :
            DOMAIN LastRecord(last.doc, e).components
                \subseteq DOMAIN em.entityComponents[e]

\* a record lists a parent when its transform data has the parent key
HasParentKey(rec) ==
    /\ "transform" \in DOMAIN rec.components
    /\ rec.components["transform"].parent # UNDEF

RecordedParent(rec) == rec.components["transform"].parent

\* a record all of whose listed components can be restored
Restorable(rec) == DOMAIN rec.components \subseteq RegisteredTypes

\* the ids that pass 1 puts in restoredEntityIds
RestoredEntityIds(doc) ==
    {doc[i].id : i \in {j \in DOMAIN doc : Restorable(doc[j])}}

\* a recorded parent that cannot be linked: of invalid type, the entity
\* itself, or not a successfully restored entity
BadParent(doc, rec) ==
    LET p == RecordedParent(rec)
    IN  /\ p # NULL
        /\ \/ ~IsNumber(p)
           \/ p = rec.id
           \/ p \notin RestoredEntityIds(doc)

\* C26: deserialize pass 2: an entity whose recorded parent is dangling, of
\* invalid type, itself, or would close a cycle ends up a root (parent null)
\* and deserialize returns false, the other entities still being restored;
\* deserialize returns true only if every entity record and every hierarchy
\* link of the document was restored.
C26_BadParentBecomesRoot ==
    Imported =>
        /\ \A i \in DOMAIN last.doc :
              LET rec == last.doc[i]
              IN  /\ rec.id \in Live(em)
                  /\ (Restorable(rec) /\ HasParentKey(rec)) =>
                        /\ ParentOf(em, rec.id) \in {NULL, RecordedParent(rec)}
                        /\ ParentOf(em, rec.id) # RecordedParent(rec)
                              => last.ret = FALSE
                        /\ BadParent(last.doc, rec) =>
                              /\ ParentOf(em, rec.id) = NULL
                              /\ last.ret = FALSE
        /\ ParentAcyclic(em)
        /\ last.ret = TRUE =>
              \A i \in DOMAIN last.doc :
                  LET rec == last.doc[i]
                  IN  /\ rec.id \in Live(em)
                      /\ DOMAIN rec.components = DOMAIN em.entityComponents[rec.id]
                      /\ HasParentKey(rec) =>
                            ParentOf(em, rec.id) = RecordedParent(rec)

\* C27: every live entity id is a positive integer in every reachable state:
\* no operation, deserialize with the ids of its records included, makes an
\* id below 1 live.
C27_LiveIdsArePositive ==
    \A id \in Live(em) : id >= 1

\* ------------------------------------------------ properties of the queries
Reversed(seq) == [i \in DOMAIN seq |-> seq[Len(seq) + 1 - i]]

\* C28: getEntitiesWithComponents(types) returns exactly the live entities
\* that have a component of every listed type, each once: all live entities
\* for the empty list, none when a listed type is blank or has no entity; the
\* result is the intersection of the listed types' index sets and does not
\* depend on the order of the list.
C28_QueryIsIntersection ==
    \A componentTypes \in QueryLists :
        LET ret == GetEntitiesWithComponents(em, componentTypes)
        IN  /\ Range(ret) =
                  {id \in Live(em) :
                      \A i \in DOMAIN componentTypes :
                          /\ IsTypeName(componentTypes[i])
                          /\ HasComponent(em, id, componentTypes[i])}
            /\ \A i, j \in DOMAIN ret : ret[i] = ret[j] => i = j
            /\ Len(componentTypes) = 0 => ret = em.entities
            /\ (\E i \in DOMAIN componentTypes :
                    \/ ~IsTypeName(componentTypes[i])
                    \/ GetEntitiesWithComponent(em, componentTypes[i]) = <<>>)
                  => ret = <<>>
            /\ (\A i \in DOMAIN componentTypes : IsTypeName(componentTypes[i])) =>
                  /\ Range(ret) =
                        {id \in Live(em) :
                            \A i \in DOMAIN componentTypes :
                                id \in Range(GetEntitiesWithComponent(em, componentTypes[i]))}
                  /\ Range(ret) =
                        Range(GetEntitiesWithComponents(em, Reversed(componentTypes)))

\* a query of two types where the set scanned from has a member without
\* the other type
C28_Witness ==
    /\ last.op = "getEntitiesWithComponents"
    /\ last.types = <<"tag", "transform">>
    /\ last.ret = <<>>
    /\ GetEntitiesWithComponent(em, "tag") = <<1>>
    /\ GetEntitiesWithComponent(em, "transform") = <<2>>

\* C29: clear() empties the store from every reachable state: afterwards the
\* live set, the component maps and the type index are empty and the id
\* counter is 1, so that the next createEntity returns 1; every entity that
\* was live got exactly one entityRemoved event, and exactly one sceneCleared
\* event is emitted, after all of them.
C29_ClearEmptiesTheStore ==
    /\ LET r == Clear(em)
           n == Len(r.events)
           removed == RemovedIds(r.events)
       IN  /\ r.em.entities = <<>>
           /\ r.em.entityComponents = EmptyMap
           /\ r.em.componentEntityMap = EmptyMap
           /\ r.em.nextEntityId = 1
           /\ CreateEntity(r.em).ret = 1
           /\ Range(removed) = Live(em)
           /\ Len(removed) = Cardinality(Live(em))
           /\ n >= 1
           /\ r.events[n] = Event("sceneCleared", NULL)
           /\ \A i \in 1..(n - 1) : r.events[i].name # "sceneCleared"
    /\ last.op = "clear" => em = EmptyStore

\* clear() was called on a store with two entities or more
C29_Witness ==
    /\ last.op = "clear"
    /\ Len(RemovedIds(events)) >= 2
    /\ events[Len(events)].name = "sceneCleared"
    /\ em.nextEntityId = 1

\* ------------------------------------- properties of the reparent command
\* C30: undo/redo inverse law for reparenting: when execute of a
\* ReparentEntityCommand(child, newParent) has succeeded and undo() is called
\* next, every entity's parent and children set are what they were before the
\* execute, the same entities are live, and the command is on the redo stack.
C30_UndoRestoresHierarchy ==
    scenario.stage = "undone" =>
        /\ Live(em) = Live(scenario.before)
        /\ WithTransform(em) = WithTransform(scenario.before)
        /\ Links(em) = Links(scenario.before)
        /\ redoStack = << scenario.cmd >>

\* a child was moved from one parent to another one and the move was undone
C30_Witness ==
    /\ scenario.stage = "undone"
    /\ scenario.cmd.oldParentId # NULL
    /\ scenario.cmd.newParentId # NULL
    /\ scenario.cmd.newParentId # scenario.cmd.oldParentId
    /\ ParentOf(em, scenario.cmd.childId) = scenario.cmd.oldParentId

\* ------------------------------------------ properties of the editor
\* C31: undo/redo inverse law for deletion: when execute of a
\* DeleteEntityCommand(e) has succeeded on a live entity e and undo() is
\* called next, e is live again with the component types captured before the
\* deletion, and the command has moved from the undo stack to the redo stack.
C31_UndoRestoresDeletedEntity ==
    (/\ scenario.stage = "undone"
     /\ scenario.first.kind = "delete"
     /\ HasEntity(scenario.before, scenario.first.entityId)) =>
        /\ HasEntity(em, scenario.first.entityId)
        /\ DOMAIN em.entityComponents[scenario.first.entityId]
              = DOMAIN scenario.first.entityState.components
        /\ redoStack = << scenario.first >>

\* C34: redo reproduces execute exactly for entity creation: after
\* execute(CreateEntityCommand); undo(); redo() the store contains a live
\* entity with the ID that the first execute created.
C34_RedoRecreatesSameId ==
    (/\ scenario.stage = "redone"
     /\ scenario.first.kind = "create"
     /\ last.ret) =>
        HasEntity(em, scenario.first.createdEntityId)

\* C40: editor selection validity: after every Engine.selectEntity,
\* Engine.removeEntity (removal of an ancestor of the selected entity
\* included) and mode change, selectedEntityId is null or the ID of a live
\* entity.
C40_SelectionIsLive ==
    last.op \in {"selectEntity", "removeEntity", "enterGameMode", "enterEditorMode"} =>
        \/ engine.selectedEntityId = NULL
        \/ HasEntity(em, engine.selectedEntityId)

\* ------------------------------------------ properties of the command stacks
\* no command object occurs twice on the stack
Distinct(stack) ==
    \A i, j \in DOMAIN stack : stack[i] = stack[j] => i = j

\* C35: exclusive stack ownership of commands: after any sequence of execute,
\* undo, redo and clear calls (executing the same command object more than
\* once included) no command object is on both the undo stack and the redo
\* stack, and none occurs twice on one stack.
C35_ExclusiveStackOwnership ==
    frames = <<>> =>
        /\ Range(undoStack) \cap Range(redoStack) = {}
        /\ Distinct(undoStack)
        /\ Distinct(redoStack)

\* ------------------------------------------ properties of the ID counter
\* C36: after every public operation of the store has returned, nextEntityId
\* is strictly greater than every live entity ID; in particular after
\* deserialize the counter exceeds every entity the load left live.
C36_CounterAboveLiveIds ==
    ~hung => \A id \in Live(em) : id < em.nextEntityId

\* ---------------------------------------- properties of the ancestor walk
\* C37: setParent always terminates: in every store reachable through the
\* public API (transforms created by addComponent with a parent field
\* included) the ancestor walk of setParent ends after finitely many steps
\* with a true or false result.
C37_SetParentTerminates ==
    last.op = "setParent" => (~hung /\ last.ret \in BOOLEAN)

\* the listeners of the 'change' event that method fn emitted after its
\* command body returned normally are running, and have called nothing yet
InChangeListener(fn) ==
    /\ frames # <<>>
    /\ Top.at = "listeners"
    /\ Top.fn = fn
    /\ Top.pending = "done"
    /\ Top.calls = 0

\* C38: stack queries are usable from 'change' listeners: when a 'change'
\* listener runs because an undoable execute or a redo succeeded, canUndo()
\* called inside the listener returns true, and when it runs because an undo
\* succeeded, canRedo() called inside it returns true.
C38_QueriesUsableInChangeListener ==
    /\ (InChangeListener("execute") /\ IsUndoable(Top.cmd)) => CanUndo
    /\ InChangeListener("redo") => CanUndo
    /\ InChangeListener("undo") => CanRedo

\* ------------------------------------------------ properties of the hub
\* C32: hub delivery order and isolation: an emit(event, data) that has
\* returned has invoked the listeners that were subscribed to the event when
\* it was called, in subscription order, every subscription once (and no
\* listener of another event), whatever the listeners did and whether they
\* returned or threw; no exception of a listener left emit.
C32_DeliveryInSubscriptionOrder ==
    /\ hub.done.invoked = hub.done.listeners
    /\ ~hub.done.propagated
    /\ \A i \in 1..Len(hub.emits) :
          LET emission == hub.emits[i]
          IN  /\ ~emission.propagated
              /\ emission.invoked =
                    SubSeq(emission.listeners, 1, Len(emission.invoked))
              /\ Len(emission.invoked) =
                    IF emission.running THEN emission.i ELSE emission.i - 1

\* an emit has returned after two listeners ran, the first of which made a
\* call on the hub that changed the listeners of the event
C32_Witness ==
    /\ hub.done.event = "change"
    /\ Len(hub.done.invoked) = 2
    /\ hub.listeners["change"] # hub.done.listeners
    /\ hub.emits = <<>>

\* ------------------------------------------------------------------- C33
\* the variable-rate pass of the loop iteration has returned
LoopPassed == smStep.op = "loop" /\ smStep.thrown = <<>>

\* C33: in one Engine._loop iteration the physics system is stepped only by
\* the fixed-timestep pass: the variable-rate pass's SystemManager.update
\* invokes no update of the physics system, also when the scheduler records
\* the system as active, and after the pass the physics system's active state
\* equals its state before the pass.
C33_PhysicsSteppedOnlyByFixedPass ==
    LoopPassed =>
        /\ \A i \in DOMAIN smStep.trace :
              ~(smStep.trace[i].name = PhysicsName /\ smStep.trace[i].phase = "update")
        /\ smStep.activeAfter = smStep.activeBefore

\* --------------------------------------------- properties of the asset loads
\* the asset a load call resolves with, NULL when its promise has not been
\* fulfilled
ResolvedWith(c) ==
    IF c.kind = "cached" THEN c.asset
    ELSE IF c.kind \in {"pending", "started"}
            /\ assetManager.requests[c.promise].state = "loaded"
    THEN c.promise
    ELSE NULL

\* a promise of path key was created after promise id
Retried(id) ==
    \E later \in DOMAIN assetManager.requests :
        later > id /\ assetManager.requests[later].path = assetManager.requests[id].path

\* C39: load de-duplication: under any interleaving of load calls and load
\* completions at most one loader request per path is in flight; a load
\* issued while one is in flight starts none and returns that pending load's
\* promise; a load issued after a successful completion starts none and
\* resolves with the asset that completion delivered, which is the cached one;
\* and once a failed load has been handled its path is neither cached nor
\* marked as loading.
C39_LoadDeduplication ==
    /\ \A key \in AssetKeys : Cardinality(InFlight(assetManager, key)) <= 1
    /\ \A i \in DOMAIN assetManager.calls :
          LET c == assetManager.calls[i]
          IN /\ c.inFlight # {} => (c.kind = "pending" /\ c.promise \in c.inFlight)
             /\ c.loaded # {} =>
                   /\ c.kind \in {"cached", "pending"}
                   /\ ResolvedWith(c) \in c.loaded
                   /\ assetManager.assets[c.path] \in {NULL, ResolvedWith(c)}
    /\ \A id \in DOMAIN assetManager.requests :
          LET r == assetManager.requests[id]
          IN (r.state = "failed" /\ r.reacted = "finally") =>
                /\ assetManager.loadingPromises[r.path] # id
                /\ assetManager.assets[r.path] # id
                /\ ~Retried(id) =>
                      /\ assetManager.loadingPromises[r.path] = NULL
                      /\ assetManager.assets[r.path] = NULL

\* a load joined a load in flight, a later one was served from the cache, and
\* a failed load has been handled
C39_Witness ==
    /\ \E i, j \in DOMAIN assetManager.calls :
          /\ i < j
          /\ assetManager.calls[i].kind = "pending"
          /\ assetManager.calls[i].inFlight # {}
          /\ assetManager.calls[j].kind = "cached"
          /\ assetManager.calls[j].path = assetManager.calls[i].path
    /\ \E id \in DOMAIN assetManager.requests :
          /\ assetManager.requests[id].loader
          /\ assetManager.requests[id].state = "failed"
          /\ assetManager.requests[id].reacted = "finally"

====
